---- MODULE Spec2Model ----
(***************************************************************************)
(* Session and fan-out core of the collaboration server.                   *)
(*                                                                         *)
(* The model follows the three-tier SessionManager (per-node in-memory map *)
(* -> Redis cache with pub/sub -> MongoDB), the WebSocketManager command   *)
(* handlers and the MongoDBStore update/commit log.  Every handler is a    *)
(* task that advances from one `await` to the next; the code between two   *)
(* awaits is one atomic step, and the effect of the awaited external call  *)
(* takes place at the beginning of the step that resumes after it.         *)
(***************************************************************************)
EXTENDS Integers, Sequences, FiniteSets, TLC

VARIABLES
  conns,        \* WebSocketManager.connections + the AuthenticatedWebSocket fields
  local,        \* SessionManager.inMemorySessions, one map per node
  cache,        \* Redis keys collab:session:<sessionKey>
  dbSessions,   \* MongoDB collection "sessions", in insertion order
  updates,      \* MongoDB collection "document_updates"
  commits,      \* MongoDB collection "document_commits"
  nextUpdateId, \* next fresh update id (uuidv4)
  nextCommitId, \* next fresh commit id (uuidv4)
  bus,          \* Redis channel session_events: events not yet handled, per subscriber
  msgs,         \* log of the recorded broadcasts and of who received them
  tasks,        \* the running handlers
  redisUp,      \* redisStore.connected
  retired,      \* session keys whose durable record terminateSession has set to terminated
  frames        \* number of frames and socket closes handled so far

vars == <<conns, local, cache, dbSessions, updates, commits, nextUpdateId,
          nextCommitId, bus, msgs, tasks, redisUp, retired, frames>>

----------------------------------------------------------------------------
(* Universe of the model *)

Nodes == {"n1", "n2"}
Conns == {"c1", "c2", "c3"}
Docs == {"d1", "d2"}
Sids == {"s1"}
Keys == Docs \X Sids
Owners == {"o1", "o2"}
Cids == {"cidA", "cidB"}
TaskIds == {1, 2}

MaxUpdates == 2
MaxCommits == 2
MaxMsgs == 1
MaxBus == 2
MaxFrames == 4
\* An update id that no row ever carries.
GhostIds == {0}

\* The node whose handleConnection accepted the socket.
NodeOf(c) == IF c = "c3" THEN "n2" ELSE "n1"

Min(a, b) == IF a < b THEN a ELSE b

----------------------------------------------------------------------------
(* Shapes *)

NoSess == [present |-> FALSE, ownerDid |-> "none", clients |-> {}, roomInfo |-> "none"]
Sess(o, cl) == [present |-> TRUE, ownerDid |-> o, clients |-> cl, roomInfo |-> "none"]
SessR(o, cl, r) == [Sess(o, cl) EXCEPT !.roomInfo = r]

NoConn == [status |-> "none", authenticated |-> FALSE, documentId |-> "none",
           sessionDid |-> "none", role |-> "none"]

Idle == [pc |-> "idle", op |-> "none", c |-> "none", d |-> "none", s |-> "none",
         otok |-> "none", ctok |-> "none", ret |-> "none", found |-> FALSE,
         fowner |-> "none", ref |-> "none", existing |-> FALSE, tmp |-> NoSess,
         ups |-> {}, cid |-> "none", code |-> 0, post |-> FALSE, peers |-> {},
         room |-> "none", committed |-> BOOLEAN]

\* Idle.post: the frame arrived after the durable record of its session key
\* had been set to terminated.
\* Idle.room: args.roomInfo of an /auth frame ("none": not supplied).
\* Idle.peers: the peers array of a /documents/peers/list reply; before the
\* reply, the client set of a session object that has left the map.

\* getSessionKey
getSessionKey(documentId, sessionDid) == <<documentId, sessionDid>>

TKey(task) == getSessionKey(task.d, task.s)
TNode(task) == NodeOf(task.c)

\* A reply carrying the request's seqId ends the handler; what the handler
\* held in its local variables is gone.
Done(task, code) ==
  [Idle EXCEPT !.pc = "done", !.op = task.op, !.c = task.c, !.d = task.d,
               !.s = task.s, !.otok = task.otok, !.ctok = task.ctok,
               !.existing = task.existing, !.code = code, !.post = task.post]

\* A new handler takes the lowest free slot.
Free(t) ==
  /\ frames < MaxFrames
  /\ tasks[t].pc = "idle"
  /\ \A u \in TaskIds : u < t => tasks[u].pc # "idle"


\* A handler between the arrival of its frame and its reply.
Running(u) ==
  /\ tasks[u].pc \notin {"idle", "done"}
  /\ tasks[u].op # "disconnect"

\* Every frame the client of c has sent is answered.
Awaited(c) == \A u \in TaskIds : Running(u) => tasks[u].c # c

----------------------------------------------------------------------------
(* AuthService *)

\* A verification that resolves an owner DID for a token that does not verify.
verifyAnyToken(otok) ==
  IF otok \in Owners THEN otok ELSE IF otok = "none" THEN "none" ELSE "o2"

\* verifyOwnerToken: the owner DID the registry resolves when the token
\* verifies against it, null ("none") otherwise.
verifyOwnerToken(otok) == IF otok \in Owners THEN otok ELSE "none"

\* A verification that accepts a collaboration token whatever its root issuer.
acceptAnyToken(ctok, sessionDid) == TRUE

\* verifyCollaborationToken: the token must be rooted at the session DID.
verifyCollaborationToken(ctok, sessionDid) == ctok = sessionDid

----------------------------------------------------------------------------
(* Redis pub/sub *)

\* publishSessionEvent + the subscriber's own-echo filter: every node but
\* the publisher gets the event.
Publish(b, from, evs) ==
  IF redisUp THEN [n \in Nodes |-> IF n = from THEN b[n] ELSE b[n] \o evs]
  ELSE b

CanPublish(from, cnt) ==
  \A n \in Nodes \ {from} : Len(bus[n]) + cnt <= MaxBus

Ev(type, k, owner, clients, clientId, m) ==
  [type |-> type, k |-> k, ownerDid |-> owner, clients |-> clients,
   clientId |-> clientId, m |-> m, roomInfo |-> "none"]

\* An event whose data carries the session's roomInfo.
EvR(type, k, owner, clients, r) ==
  [Ev(type, k, owner, clients, "none", 0) EXCEPT !.roomInfo = r]

\* A session object reference held by a suspended handler goes stale when
\* the map entry it came from is replaced or deleted.
Inval(ts, n, k) ==
  [u \in TaskIds |->
     IF ts[u].pc # "idle" /\ ts[u].ref = "live" /\ TNode(ts[u]) = n /\ TKey(ts[u]) = k
     THEN [ts[u] EXCEPT !.ref = "stale",
                        !.peers = IF ts[u].op = "peers" THEN local[n][k].clients ELSE @]
     ELSE ts[u]]

----------------------------------------------------------------------------
(* WebSocketManager.handleCrossDynoBroadcast: local delivery on node n *)

handleCrossDynoBroadcast(ms, m, n, loc, cs) ==
  IF m = 0 THEN ms
  ELSE [ms EXCEPT ![m].recv =
          [c \in Conns |->
             IF /\ c \in loc[n][ms[m].k].clients
                /\ c # ms[m].exclude
                /\ NodeOf(c) = n
                /\ cs[c].status = "open"
             THEN Min(@[c] + 1, 2) ELSE @[c]]]

\* The connections that completed /auth for session k and are still open.
Audience(k) ==
  {c \in Conns : /\ conns[c].status = "open"
                 /\ conns[c].authenticated
                 /\ getSessionKey(conns[c].documentId, conns[c].sessionDid) = k
                 /\ \A u \in TaskIds : ~(tasks[u].pc # "idle" /\ tasks[u].c = c
                                          /\ tasks[u].op = "auth")}

NewMsg(type, k, ex) ==
  [type |-> type, k |-> k, exclude |-> ex, aud |-> Audience(k),
   recv |-> [c \in Conns |-> 0]]

----------------------------------------------------------------------------
(* SessionManager.getSession *)

\* The synchronous head of getSession: a hit in the in-memory map returns at
\* once, otherwise the Redis (or MongoDB) read is awaited.
getSession(task, ret) ==
  LET n == TNode(task)
      k == TKey(task)
  IN IF local[n][k].present
     THEN [task EXCEPT !.found = TRUE, !.fowner = local[n][k].ownerDid,
                       !.ref = "live", !.pc = ret]
     ELSE [task EXCEPT !.found = FALSE, !.fowner = "none", !.ref = "none",
                       !.ret = ret,
                       !.pc = IF redisUp THEN "gs_cache" ELSE "gs_db"]

\* redisStore.getSession answered.
GetSessionCache(t) ==
  LET task == tasks[t]
      n == TNode(task)
      k == TKey(task)
  IN /\ task.pc = "gs_cache"
     /\ IF cache[k].present
        THEN /\ local' = [local EXCEPT ![n][k] =
                            SessR(cache[k].ownerDid, cache[k].clients, cache[k].roomInfo)]
             /\ tasks' = [Inval(tasks, n, k) EXCEPT ![t] =
                            [task EXCEPT !.found = TRUE, !.fowner = cache[k].ownerDid,
                                         !.ref = "live", !.pc = task.ret, !.ret = "none"]]
        ELSE /\ tasks' = [tasks EXCEPT ![t].pc = "gs_db"]
             /\ UNCHANGED local
     /\ UNCHANGED <<conns, cache, dbSessions, updates, commits, nextUpdateId,
                    nextCommitId, bus, msgs, redisUp, retired, frames>>

\* SessionModel.findOne({documentId, sessionDid, state: {$ne: "terminated"}})
FindLive(k) ==
  {i \in 1..Len(dbSessions) :
      /\ dbSessions[i].documentId = k[1]
      /\ dbSessions[i].sessionDid = k[2]
      /\ dbSessions[i].state # "terminated"}

First(S) == CHOOSE i \in S : \A j \in S : i <= j

\* SessionModel.findOne answered (or threw, which the caller's handler
\* turns into a 500 reply).
GetSessionDb(t) ==
  LET task == tasks[t]
      n == TNode(task)
      k == TKey(task)
  IN /\ task.pc = "gs_db"
     /\ \/ /\ FindLive(k) = {}
           /\ tasks' = [tasks EXCEPT ![t] = [task EXCEPT !.found = FALSE, !.pc = task.ret, !.ret = "none"]]
           /\ UNCHANGED local
        \/ /\ FindLive(k) # {}
           /\ LET rec == dbSessions[First(FindLive(k))]
              IN /\ local' = [local EXCEPT ![n][k] = Sess(rec.ownerDid, {})]
                 /\ tasks' = [Inval(tasks, n, k) EXCEPT ![t] =
                                [task EXCEPT !.found = TRUE, !.fowner = rec.ownerDid,
                                             !.ref = "live",
                                             !.pc = IF redisUp THEN "gs_warm" ELSE task.ret,
                                             !.ret = IF redisUp THEN task.ret ELSE "none"]]
        \/ /\ tasks' = [tasks EXCEPT ![t] = Done(task, 500)]
           /\ UNCHANGED local
     /\ UNCHANGED <<conns, cache, dbSessions, updates, commits, nextUpdateId,
                    nextCommitId, bus, msgs, redisUp, retired, frames>>

\* redisStore.setSession of the record read from MongoDB (clients: [],
\* roomInfo undefined),
\* which also publishes SESSION_CREATED.
GetSessionWarm(t) ==
  LET task == tasks[t]
      n == TNode(task)
      k == TKey(task)
  IN /\ task.pc = "gs_warm"
     /\ CanPublish(n, 1)
     /\ cache' = [cache EXCEPT ![k] = Sess(task.fowner, {})]
     /\ bus' = Publish(bus, n, <<Ev("SESSION_CREATED", k, task.fowner, {}, "none", 0)>>)
     /\ tasks' = [tasks EXCEPT ![t] = [task EXCEPT !.pc = task.ret, !.ret = "none"]]
     /\ UNCHANGED <<conns, local, dbSessions, updates, commits, nextUpdateId,
                    nextCommitId, msgs, redisUp, retired, frames>>

----------------------------------------------------------------------------
(* WebSocketManager.handleConnection *)

Connect(c) ==
  /\ conns[c].status = "none"
  /\ conns' = [conns EXCEPT ![c] = [NoConn EXCEPT !.status = "open"]]
  /\ UNCHANGED <<local, cache, dbSessions, updates, commits, nextUpdateId,
                 nextCommitId, bus, msgs, tasks, redisUp, retired, frames>>

\* The reply has been sent; the handler's promise settles.
Retire(t) ==
  /\ tasks[t].pc = "done"
  /\ tasks' = [tasks EXCEPT ![t] = Idle]
  /\ UNCHANGED <<conns, local, cache, dbSessions, updates, commits, nextUpdateId,
                 nextCommitId, bus, msgs, redisUp, retired, frames>>

----------------------------------------------------------------------------
(* WebSocketManager.handleAuth: setup path *)

\* SessionModel.findOneAndUpdate({documentId, sessionDid, ownerDid},
\*   {state: "active", roomInfo}, {upsert: true}). SessionSchema declares
\* documentId, sessionDid, ownerDid, createdAt and state: roomInfo is no path
\* of the durable record, so it is neither written nor read back.
FindOwned(db, k, o) ==
  {i \in 1..Len(db) : /\ db[i].documentId = k[1]
                      /\ db[i].sessionDid = k[2]
                      /\ db[i].ownerDid = o}

UpsertActive(db, k, o) ==
  IF FindOwned(db, k, o) # {}
  THEN [db EXCEPT ![First(FindOwned(db, k, o))].state = "active"]
  ELSE Append(db, [documentId |-> k[1], sessionDid |-> k[2], ownerDid |-> o,
                   state |-> "active"])

\* A /auth frame arrives on an open socket; r is its roomInfo argument.
StartAuthRoom(t, c, d, s, ctok, otok, r) ==
  LET base == [Idle EXCEPT !.op = "auth", !.c = c, !.d = d, !.s = s,
                           !.ctok = ctok, !.otok = otok, !.room = r,
                           !.post = getSessionKey(d, s) \in retired]
  IN /\ Free(t)
     /\ conns[c].status = "open"
     /\ IF ctok = "none"
        THEN /\ tasks' = [tasks EXCEPT ![t] = Done(base, 400)]
             /\ UNCHANGED conns
        ELSE /\ conns' = [conns EXCEPT ![c].documentId = d]
             /\ tasks' = [tasks EXCEPT ![t] = getSession(base, "auth_got")]
     /\ UNCHANGED <<local, cache, dbSessions, updates, commits, nextUpdateId,
                    nextCommitId, bus, msgs, redisUp, retired>>
     /\ frames' = frames + 1

\* A /auth frame without a roomInfo argument.
StartAuth(t, c, d, s, ctok, otok) == StartAuthRoom(t, c, d, s, ctok, otok, "none")

\* handleAuth after its getSession: setupSession when no session was found
\* (owner token verified, connection marked, createSession begun),
\* handleJoinSession otherwise.
AuthGot(t) ==
  LET task == tasks[t]
      n == TNode(task)
      k == TKey(task)
      ownerDid == verifyOwnerToken(task.otok)
  IN /\ task.pc = "auth_got"
     /\ IF task.found
        THEN /\ tasks' = [tasks EXCEPT ![t] =
                            getSession([task EXCEPT !.existing = TRUE], "join_got")]
             /\ UNCHANGED <<conns, local>>
        ELSE IF task.otok = "none" \/ ownerDid = "none"
        THEN /\ tasks' = [tasks EXCEPT ![t] = Done(task, 401)]
             /\ UNCHANGED <<conns, local>>
        ELSE /\ conns' = [conns EXCEPT ![task.c].authenticated = TRUE,
                                       ![task.c].role = "owner",
                                       ![task.c].sessionDid = task.s]
             /\ local' = [local EXCEPT ![n][k] = SessR(ownerDid, {}, task.room)]
             /\ tasks' = [Inval(tasks, n, k) EXCEPT ![t] =
                            [task EXCEPT !.existing = FALSE, !.fowner = ownerDid,
                                         !.pc = IF redisUp THEN "cs_cache" ELSE "cs_db"]]
     /\ UNCHANGED <<cache, dbSessions, updates, commits, nextUpdateId,
                    nextCommitId, bus, msgs, redisUp, retired, frames>>

\* createSession: redisStore.setSession (clients: []) and its SESSION_CREATED.
CreateSessionCache(t) ==
  LET task == tasks[t]
      n == TNode(task)
      k == TKey(task)
  IN /\ task.pc = "cs_cache"
     /\ CanPublish(n, 1)
     /\ cache' = [cache EXCEPT ![k] = SessR(task.fowner, {}, task.room)]
     /\ bus' = Publish(bus, n, <<EvR("SESSION_CREATED", k, task.fowner, {}, task.room)>>)
     /\ tasks' = [tasks EXCEPT ![t].pc = "cs_db"]
     /\ UNCHANGED <<conns, local, dbSessions, updates, commits, nextUpdateId,
                    nextCommitId, msgs, redisUp, retired, frames>>

\* createSession: the MongoDB upsert (an error is logged and swallowed),
\* then setupSession calls addClientToSession.
CreateSessionDb(t) ==
  LET task == tasks[t]
  IN /\ task.pc = "cs_db"
     /\ \/ dbSessions' = UpsertActive(dbSessions, TKey(task), task.fowner)
        \/ UNCHANGED dbSessions
     /\ tasks' = [tasks EXCEPT ![t] = getSession(task, "add_got")]
     /\ UNCHANGED <<conns, local, cache, updates, commits, nextUpdateId,
                    nextCommitId, bus, msgs, redisUp, retired, frames>>

----------------------------------------------------------------------------
(* WebSocketManager.handleAuth: join path *)

\* handleJoinSession after its getSession: both tokens verified, the
\* connection marked; updateRoomInfo (its write to the map entry included)
\* for role owner with a roomInfo argument, addClientToSession otherwise.
JoinGot(t) ==
  LET task == tasks[t]
      n == TNode(task)
      k == TKey(task)
      ownerDid == IF task.otok = "none" THEN "none" ELSE verifyOwnerToken(task.otok)
  IN /\ task.pc = "join_got"
     /\ IF ~task.found \/ ~verifyCollaborationToken(task.ctok, task.s)
        THEN /\ tasks' = [tasks EXCEPT ![t] = Done(task, 401)]
             /\ UNCHANGED <<conns, local>>
        ELSE /\ conns' = [conns EXCEPT ![task.c].authenticated = TRUE,
                             ![task.c].role = IF ownerDid = task.fowner
                                              THEN "owner" ELSE "editor",
                             ![task.c].documentId = task.d,
                             ![task.c].sessionDid = task.s]
             /\ IF ownerDid = task.fowner /\ task.room # "none"
                THEN /\ local' = IF local[n][k].present
                                 THEN [local EXCEPT ![n][k].roomInfo = task.room]
                                 ELSE local
                     /\ tasks' = [tasks EXCEPT ![t].pc =
                                    IF redisUp THEN "ri_rget" ELSE "ri_db"]
                ELSE /\ tasks' = [tasks EXCEPT ![t] = getSession(task, "add_got")]
                     /\ UNCHANGED local
     /\ UNCHANGED <<cache, dbSessions, updates, commits, nextUpdateId,
                    nextCommitId, bus, msgs, redisUp, retired, frames>>

----------------------------------------------------------------------------
(* SessionManager.updateRoomInfo *)

\* redisStore.updateRoomInfo: the cached record is read ...
RoomRedisGet(t) ==
  LET task == tasks[t]
      k == TKey(task)
  IN /\ task.pc = "ri_rget"
     /\ tasks' = [tasks EXCEPT ![t] =
                    IF ~cache[k].present
                    THEN [task EXCEPT !.pc = "ri_db"]
                    ELSE [task EXCEPT !.tmp = [cache[k] EXCEPT !.roomInfo = task.room],
                                      !.pc = "ri_rset"]]
     /\ UNCHANGED <<conns, local, cache, dbSessions, updates, commits, nextUpdateId,
                    nextCommitId, bus, msgs, redisUp, retired, frames>>

\* ... and written back with the new roomInfo (SESSION_UPDATED), then
\* ROOM_INFO_UPDATED is published.
RoomRedisSet(t) ==
  LET task == tasks[t]
      n == TNode(task)
      k == TKey(task)
  IN /\ task.pc = "ri_rset"
     /\ CanPublish(n, 2)
     /\ cache' = [cache EXCEPT ![k] = task.tmp]
     /\ bus' = Publish(bus, n,
                 <<EvR("SESSION_UPDATED", k, task.tmp.ownerDid, task.tmp.clients,
                       task.room),
                   EvR("ROOM_INFO_UPDATED", k, "none", {}, task.room)>>)
     /\ tasks' = [tasks EXCEPT ![t] = [task EXCEPT !.tmp = NoSess, !.pc = "ri_db"]]
     /\ UNCHANGED <<conns, local, dbSessions, updates, commits, nextUpdateId,
                    nextCommitId, msgs, redisUp, retired, frames>>

\* SessionModel.findOneAndUpdate({documentId, sessionDid, ownerDid},
\* {roomInfo}): the update document is empty once the key that is no path of
\* SessionSchema is taken out, and an error is logged and swallowed; then
\* handleJoinSession calls addClientToSession.
RoomDb(t) ==
  LET task == tasks[t]
  IN /\ task.pc = "ri_db"
     /\ tasks' = [tasks EXCEPT ![t] = getSession(task, "add_got")]
     /\ UNCHANGED <<conns, local, cache, dbSessions, updates, commits, nextUpdateId,
                    nextCommitId, bus, msgs, redisUp, retired, frames>>

----------------------------------------------------------------------------
(* SessionManager.addClientToSession *)

\* After addClientToSession both paths of handleAuth broadcast user_joined
\* (not recorded in msgs) and reply 200; the boolean result is not looked at.
AfterAdd(task) == Done(task, 200)

\* addClientToSession after its getSession: the client id goes into the
\* clients set of the session object that getSession returned.
AddGot(t) ==
  LET task == tasks[t]
      n == TNode(task)
      k == TKey(task)
  IN /\ task.pc = "add_got"
     /\ IF ~task.found
        THEN /\ tasks' = [tasks EXCEPT ![t] = AfterAdd(task)]
             /\ UNCHANGED local
        ELSE /\ local' = IF task.ref = "live"
                         THEN [local EXCEPT ![n][k].clients = @ \cup {task.c}]
                         ELSE local
             /\ tasks' = [tasks EXCEPT ![t] =
                            IF redisUp THEN [task EXCEPT !.pc = "add_rget"]
                            ELSE AfterAdd(task)]
     /\ UNCHANGED <<conns, cache, dbSessions, updates, commits, nextUpdateId,
                    nextCommitId, bus, msgs, redisUp, retired, frames>>

\* redisStore.addClientToSession: the cached record is read ...
AddRedisGet(t) ==
  LET task == tasks[t]
      k == TKey(task)
  IN /\ task.pc = "add_rget"
     /\ tasks' = [tasks EXCEPT ![t] =
                    IF ~cache[k].present \/ task.c \in cache[k].clients
                    THEN AfterAdd(task)
                    ELSE [task EXCEPT !.tmp = cache[k], !.pc = "add_rset"]]
     /\ UNCHANGED <<conns, local, cache, dbSessions, updates, commits, nextUpdateId,
                    nextCommitId, bus, msgs, redisUp, retired, frames>>

\* ... and written back with the client appended (SESSION_UPDATED), then
\* CLIENT_JOINED is published.
AddRedisSet(t) ==
  LET task == tasks[t]
      n == TNode(task)
      k == TKey(task)
      cl == task.tmp.clients \cup {task.c}
  IN /\ task.pc = "add_rset"
     /\ CanPublish(n, 2)
     /\ cache' = [cache EXCEPT ![k] = [task.tmp EXCEPT !.clients = cl]]
     /\ bus' = Publish(bus, n,
                 <<EvR("SESSION_UPDATED", k, task.tmp.ownerDid, cl, task.tmp.roomInfo),
                   Ev("CLIENT_JOINED", k, "none", {}, task.c, 0)>>)
     /\ tasks' = [tasks EXCEPT ![t] = AfterAdd(task)]
     /\ UNCHANGED <<conns, local, dbSessions, updates, commits, nextUpdateId,
                    nextCommitId, msgs, redisUp, retired, frames>>

----------------------------------------------------------------------------
(* SessionManager.broadcastToAllDynos *)

\* The first MaxMsgs broadcasts of the recorded kinds get an entry in msgs;
\* id 0 stands for a broadcast that is not recorded.
BMsgId == IF Len(msgs) < MaxMsgs THEN Len(msgs) + 1 ELSE 0

CanBroadcast(n) == BMsgId > 0 => CanPublish(n, 1)

\* publishBroadcastMessage to the other nodes ...
BroadcastBus(b, k, n) ==
  IF BMsgId > 0
  THEN Publish(b, n, <<Ev("BROADCAST_MESSAGE", k, "none", {}, "none", BMsgId)>>)
  ELSE b

\* ... and the local broadcast handler on the publishing node.
BroadcastMsgs(type, k, ex, n) ==
  handleCrossDynoBroadcast(
    IF BMsgId > 0 THEN Append(msgs, NewMsg(type, k, ex)) ELSE msgs,
    BMsgId, n, local, conns)

----------------------------------------------------------------------------
(* WebSocketManager.handleTerminateSession, SessionManager.terminateSession *)

StartTerminate(t, c, d, s, otok) ==
  LET base == [Idle EXCEPT !.op = "terminate", !.c = c, !.d = d, !.s = s,
                           !.otok = otok]
  IN /\ Free(t)
     /\ conns[c].status = "open"
     /\ tasks' = [tasks EXCEPT ![t] = getSession(base, "term_got")]
     /\ UNCHANGED <<conns, local, cache, dbSessions, updates, commits, nextUpdateId,
                    nextCommitId, bus, msgs, redisUp, retired>>
     /\ frames' = frames + 1

\* After getSession: owner check, SESSION_TERMINATED broadcast, then
\* terminateSession drops the in-memory entry.
TermGot(t) ==
  LET task == tasks[t]
      n == TNode(task)
      k == TKey(task)
  IN /\ task.pc = "term_got"
     /\ IF ~task.found
        THEN /\ tasks' = [tasks EXCEPT ![t] = Done(task, 404)]
             /\ UNCHANGED <<local, bus, msgs>>
        ELSE IF verifyOwnerToken(task.otok) # task.fowner
        THEN /\ tasks' = [tasks EXCEPT ![t] = Done(task, 401)]
             /\ UNCHANGED <<local, bus, msgs>>
        ELSE /\ CanBroadcast(n)
             /\ bus' = BroadcastBus(bus, k, n)
             /\ msgs' = BroadcastMsgs("SESSION_TERMINATED", k, task.c, n)
             /\ local' = [local EXCEPT ![n][k] = NoSess]
             /\ tasks' = [Inval(tasks, n, k) EXCEPT ![t] =
                            [task EXCEPT !.ref = "none",
                                         !.pc = IF redisUp THEN "term_rdel" ELSE "term_db1"]]
     /\ UNCHANGED <<conns, cache, dbSessions, updates, commits, nextUpdateId,
                    nextCommitId, redisUp, retired, frames>>

\* redisStore.deleteSession: DEL and SESSION_DELETED.
TermRedisDel(t) ==
  LET task == tasks[t]
      n == TNode(task)
      k == TKey(task)
  IN /\ task.pc = "term_rdel"
     /\ CanPublish(n, 1)
     /\ cache' = [cache EXCEPT ![k] = NoSess]
     /\ bus' = Publish(bus, n, <<Ev("SESSION_DELETED", k, "none", {}, "none", 0)>>)
     /\ tasks' = [tasks EXCEPT ![t].pc = "term_db1"]
     /\ UNCHANGED <<conns, local, dbSessions, updates, commits, nextUpdateId,
                    nextCommitId, msgs, redisUp, retired, frames>>

\* SessionModel.findOneAndUpdate({documentId, sessionDid},
\*   {state: "terminated", roomInfo: null}); SessionSchema has no roomInfo.
FindKey(db, k) ==
  {i \in 1..Len(db) : db[i].documentId = k[1] /\ db[i].sessionDid = k[2]}

SetTerminated(db, k) ==
  IF FindKey(db, k) # {}
  THEN [db EXCEPT ![First(FindKey(db, k))].state = "terminated"]
  ELSE db

\* A MongoDB error in any of the three operations is caught and logged by
\* terminateSession; the handler replies 200 either way.
TermDbState(t) ==
  LET task == tasks[t]
      k == TKey(task)
  IN /\ task.pc = "term_db1"
     /\ \/ /\ dbSessions' = SetTerminated(dbSessions, k)
           /\ retired' = IF FindKey(dbSessions, k) # {} THEN retired \cup {k} ELSE retired
           /\ tasks' = [tasks EXCEPT ![t].pc = "term_db2"]
        \/ /\ tasks' = [tasks EXCEPT ![t] = Done(task, 200)]
           /\ UNCHANGED <<dbSessions, retired>>
     /\ UNCHANGED <<conns, local, cache, updates, commits, nextUpdateId,
                    nextCommitId, bus, msgs, redisUp, frames>>

\* DocumentUpdateModel.deleteMany({documentId, sessionDid})
TermDbUpdates(t) ==
  LET task == tasks[t]
  IN /\ task.pc = "term_db2"
     /\ \/ /\ updates' = {u \in updates : ~(u.documentId = task.d /\ u.sessionDid = task.s)}
           /\ tasks' = [tasks EXCEPT ![t].pc = "term_db3"]
        \/ /\ tasks' = [tasks EXCEPT ![t] = Done(task, 200)]
           /\ UNCHANGED updates
     /\ UNCHANGED <<conns, local, cache, dbSessions, commits, nextUpdateId,
                    nextCommitId, bus, msgs, redisUp, retired, frames>>

\* DocumentCommitModel.deleteMany({documentId, sessionDid})
TermDbCommits(t) ==
  LET task == tasks[t]
  IN /\ task.pc = "term_db3"
     /\ \/ commits' = {m \in commits : ~(m.documentId = task.d /\ m.sessionDid = task.s)}
        \/ UNCHANGED commits
     /\ tasks' = [tasks EXCEPT ![t] = Done(task, 200)]
     /\ UNCHANGED <<conns, local, cache, dbSessions, updates, nextUpdateId,
                    nextCommitId, bus, msgs, redisUp, retired, frames>>

----------------------------------------------------------------------------
(* WebSocketManager.handleDocumentUpdate, MongoDBStore.createUpdate *)

Unauthenticated(ws) ==
  ~ws.authenticated \/ ws.documentId = "none" \/ ws.sessionDid = "none"

\* args.documentId || ws.documentId
ArgDoc(dArg, ws) == IF dArg = "none" THEN ws.documentId ELSE dArg

StartUpdate(t, c, dArg, ctok) ==
  LET ws == conns[c]
      base == [Idle EXCEPT !.op = "update", !.c = c, !.d = ArgDoc(dArg, ws),
                           !.s = ws.sessionDid, !.ctok = ctok]
  IN /\ Free(t)
     /\ ws.status = "open"
     /\ nextUpdateId <= MaxUpdates
     /\ tasks' = [tasks EXCEPT ![t] =
                    IF Unauthenticated(ws) THEN Done(base, 401)
                    ELSE getSession(base, "upd_got")]
     /\ UNCHANGED <<conns, local, cache, dbSessions, updates, commits, nextUpdateId,
                    nextCommitId, bus, msgs, redisUp, retired>>
     /\ frames' = frames + 1

UpdGot(t) ==
  LET task == tasks[t]
  IN /\ task.pc = "upd_got"
     /\ tasks' = [tasks EXCEPT ![t] =
                    IF ~task.found THEN Done(task, 404)
                    ELSE IF ~verifyCollaborationToken(task.ctok, task.s) THEN Done(task, 401)
                    ELSE [task EXCEPT !.pc = "upd_save"]]
     /\ UNCHANGED <<conns, local, cache, dbSessions, updates, commits, nextUpdateId,
                    nextCommitId, bus, msgs, redisUp, retired, frames>>

\* createUpdate
createUpdate(rows, id, documentId, sessionDid) ==
  rows \cup {[id |-> id, documentId |-> documentId, sessionDid |-> sessionDid,
              committed |-> FALSE, commitCid |-> "null"]}

\* A handler that broadcasts CONTENT_UPDATE before it saves the row, so that
\* the event is out when the save throws.
UpdBroadcastFirst(t) ==
  LET task == tasks[t]
      n == TNode(task)
      k == getSessionKey(task.d, conns[task.c].sessionDid)
  IN /\ task.pc = "upd_save"
     /\ CanBroadcast(n)
     /\ bus' = BroadcastBus(bus, k, n)
     /\ msgs' = BroadcastMsgs("CONTENT_UPDATE", k, task.c, n)
     /\ \/ /\ updates' = createUpdate(updates, nextUpdateId, task.d, task.s)
           /\ nextUpdateId' = nextUpdateId + 1
           /\ tasks' = [tasks EXCEPT ![t] = Done(task, 200)]
        \/ /\ tasks' = [tasks EXCEPT ![t] = Done(task, 500)]
           /\ UNCHANGED <<updates, nextUpdateId>>
     /\ UNCHANGED <<conns, local, cache, dbSessions, commits, nextCommitId,
                    redisUp, retired, frames>>

\* The row is saved, CONTENT_UPDATE is broadcast and the reply sent; a
\* failing save throws and handleMessage replies 500.
UpdSave(t) ==
  LET task == tasks[t]
      n == TNode(task)
      k == getSessionKey(task.d, conns[task.c].sessionDid)
  IN /\ task.pc = "upd_save"
     /\ \/ /\ CanBroadcast(n)
           /\ updates' = createUpdate(updates, nextUpdateId, task.d, task.s)
           /\ nextUpdateId' = nextUpdateId + 1
           /\ bus' = BroadcastBus(bus, k, n)
           /\ msgs' = BroadcastMsgs("CONTENT_UPDATE", k, task.c, n)
           /\ tasks' = [tasks EXCEPT ![t] = Done(task, 200)]
        \/ /\ tasks' = [tasks EXCEPT ![t] = Done(task, 500)]
           /\ UNCHANGED <<updates, nextUpdateId, bus, msgs>>
     /\ UNCHANGED <<conns, local, cache, dbSessions, commits, nextCommitId,
                    redisUp, retired, frames>>

----------------------------------------------------------------------------
(* WebSocketManager.handleDocumentCommit, MongoDBStore.createCommit *)

StartCommit(t, c, dArg, ups, cid, otok) ==
  LET ws == conns[c]
      base == [Idle EXCEPT !.op = "commit", !.c = c, !.d = ArgDoc(dArg, ws),
                           !.s = ws.sessionDid, !.otok = otok, !.ups = ups,
                           !.cid = cid]
  IN /\ Free(t)
     /\ ws.status = "open"
     /\ nextCommitId <= MaxCommits
     /\ ups \subseteq (1..(nextUpdateId - 1)) \cup GhostIds
     /\ tasks' = [tasks EXCEPT ![t] =
                    IF Unauthenticated(ws) THEN Done(base, 401)
                    ELSE IF ws.role # "owner" THEN Done(base, 403)
                    ELSE getSession(base, "com_got")]
     /\ UNCHANGED <<conns, local, cache, dbSessions, updates, commits, nextUpdateId,
                    nextCommitId, bus, msgs, redisUp, retired>>
     /\ frames' = frames + 1

ComGot(t) ==
  LET task == tasks[t]
  IN /\ task.pc = "com_got"
     /\ tasks' = [tasks EXCEPT ![t] =
                    IF ~task.found THEN Done(task, 404)
                    ELSE IF task.cid = "none" THEN Done(task, 400)
                    ELSE IF verifyOwnerToken(task.otok) = "none" THEN Done(task, 401)
                    ELSE [task EXCEPT !.pc = "com_save"]]
     /\ UNCHANGED <<conns, local, cache, dbSessions, updates, commits, nextUpdateId,
                    nextCommitId, bus, msgs, redisUp, retired, frames>>

\* createCommit: mongoCommit.save()
ComSave(t) ==
  LET task == tasks[t]
  IN /\ task.pc = "com_save"
     /\ \/ /\ commits' = commits \cup
                 {[id |-> nextCommitId, documentId |-> task.d, sessionDid |-> task.s,
                   cid |-> task.cid, updates |-> task.ups]}
           /\ nextCommitId' = nextCommitId + 1
           /\ tasks' = [tasks EXCEPT ![t].pc = "com_mark"]
        \/ /\ tasks' = [tasks EXCEPT ![t] = Done(task, 500)]
           /\ UNCHANGED <<commits, nextCommitId>>
     /\ UNCHANGED <<conns, local, cache, dbSessions, updates, nextUpdateId,
                    bus, msgs, redisUp, retired, frames>>

\* A marking that also inserts a committed row for every listed id that has
\* none.
markWithUpsert(rows, updateIds, commitId) ==
  {IF u.id \in updateIds
   THEN [u EXCEPT !.committed = TRUE, !.commitCid = commitId]
   ELSE u : u \in rows}
  \cup {[id |-> i, documentId |-> "d1", sessionDid |-> "s1", committed |-> TRUE,
          commitCid |-> commitId] : i \in updateIds \ {u.id : u \in rows}}

\* A marking that sets the flag and leaves commitCid as it was.
markFlagOnly(rows, updateIds, commitId) ==
  {IF u.id \in updateIds THEN [u EXCEPT !.committed = TRUE] ELSE u : u \in rows}

\* markUpdatesAsCommitted: updateMany({_id: {$in: updateIds}},
\*   {committed: true, commitCid: commitId})
markUpdatesAsCommitted(rows, updateIds, commitId) ==
  {IF u.id \in updateIds
   THEN [u EXCEPT !.committed = TRUE, !.commitCid = commitId]
   ELSE u : u \in rows}

\* createCommit: markUpdatesAsCommitted, then the reply.
ComMark(t) ==
  LET task == tasks[t]
  IN /\ task.pc = "com_mark"
     /\ \/ /\ updates' = markUpdatesAsCommitted(updates, task.ups, task.cid)
           /\ tasks' = [tasks EXCEPT ![t] = Done(task, 200)]
        \/ /\ tasks' = [tasks EXCEPT ![t] = Done(task, 500)]
           /\ UNCHANGED updates
     /\ UNCHANGED <<conns, local, cache, dbSessions, commits, nextUpdateId,
                    nextCommitId, bus, msgs, redisUp, retired, frames>>

----------------------------------------------------------------------------
(* WebSocketManager.handleConnection (message listener), handleMessage *)

\* A frame that JSON.parse rejects is answered 400 by the listener's catch,
\* a frame with an unknown cmd 404 by the default case of handleMessage.
BadFrame(t, c, code) ==
  /\ Free(t)
  /\ conns[c].status = "open"
  /\ tasks' = [tasks EXCEPT ![t] = Done([Idle EXCEPT !.op = "bad", !.c = c], code)]
  /\ UNCHANGED <<conns, local, cache, dbSessions, updates, commits, nextUpdateId,
                 nextCommitId, bus, msgs, redisUp, retired>>
  /\ frames' = frames + 1

----------------------------------------------------------------------------
(* WebSocketManager.handlePeersList *)

StartPeers(t, c, dArg) ==
  LET ws == conns[c]
      base == [Idle EXCEPT !.op = "peers", !.c = c, !.d = ArgDoc(dArg, ws),
                           !.s = ws.sessionDid]
  IN /\ Free(t)
     /\ ws.status = "open"
     /\ tasks' = [tasks EXCEPT ![t] =
                    IF Unauthenticated(ws) THEN Done(base, 401)
                    ELSE getSession(base, "peers_got")]
     /\ UNCHANGED <<conns, local, cache, dbSessions, updates, commits, nextUpdateId,
                    nextCommitId, bus, msgs, redisUp, retired>>
     /\ frames' = frames + 1

\* Array.from(session?.clients || []) of the object getSession returned.
PeersOf(task) ==
  IF ~task.found THEN {}
  ELSE IF task.ref = "live" THEN local[TNode(task)][TKey(task)].clients
  ELSE task.peers

PeersGot(t) ==
  LET task == tasks[t]
  IN /\ task.pc = "peers_got"
     /\ tasks' = [tasks EXCEPT ![t] = [Done(task, 200) EXCEPT !.peers = PeersOf(task)]]
     /\ UNCHANGED <<conns, local, cache, dbSessions, updates, commits, nextUpdateId,
                    nextCommitId, bus, msgs, redisUp, retired, frames>>

(***************************************************************************)
(* /documents/update/history and /documents/commit/history                 *)
(***************************************************************************)

\* MongoDBStore.getUpdatesByDocument: find({documentId}), narrowed by the
\* committed flag when the filter is given (committed is the set of accepted
\* flag values, BOOLEAN when options.committed is undefined). The default
\* limit of 100 exceeds MaxUpdates, so no row is cut by the pagination.
getUpdatesByDocument(rows, documentId, committed) ==
  {v \in rows : v.documentId = documentId /\ v.committed \in committed}

\* MongoDBStore.getCommitsByDocument: find({documentId}).
getCommitsByDocument(rows, documentId) ==
  {v \in rows : v.documentId = documentId}

\* handleUpdateHistory up to its await of getUpdatesByDocument.
StartUpdateHistory(t, c, dArg, committed) ==
  LET ws == conns[c]
      base == [Idle EXCEPT !.op = "update_history", !.c = c,
                           !.d = ArgDoc(dArg, ws), !.s = ws.sessionDid,
                           !.committed = committed]
  IN /\ Free(t)
     /\ ws.status = "open"
     /\ tasks' = [tasks EXCEPT ![t] =
                    IF Unauthenticated(ws) THEN Done(base, 401)
                    ELSE [base EXCEPT !.pc = "uh_read"]]
     /\ UNCHANGED <<conns, local, cache, dbSessions, updates, commits, nextUpdateId,
                    nextCommitId, bus, msgs, redisUp, retired>>
     /\ frames' = frames + 1

\* The query answers (a failed query is caught and answers []); the reply
\* carries the rows, recorded by their ids in ups.
UpdHistGot(t) ==
  LET task == tasks[t]
      rows == getUpdatesByDocument(updates, task.d, task.committed)
  IN /\ task.pc = "uh_read"
     /\ \E got \in {rows, {}} :
          tasks' = [tasks EXCEPT ![t] =
                      [Done(task, 200) EXCEPT !.ups = {v.id : v \in got}]]
     /\ UNCHANGED <<conns, local, cache, dbSessions, updates, commits, nextUpdateId,
                    nextCommitId, bus, msgs, redisUp, retired, frames>>

\* handleCommitHistory up to its await of getCommitsByDocument.
StartCommitHistory(t, c, dArg) ==
  LET ws == conns[c]
      base == [Idle EXCEPT !.op = "commit_history", !.c = c,
                           !.d = ArgDoc(dArg, ws), !.s = ws.sessionDid]
  IN /\ Free(t)
     /\ ws.status = "open"
     /\ tasks' = [tasks EXCEPT ![t] =
                    IF Unauthenticated(ws) THEN Done(base, 401)
                    ELSE [base EXCEPT !.pc = "ch_read"]]
     /\ UNCHANGED <<conns, local, cache, dbSessions, updates, commits, nextUpdateId,
                    nextCommitId, bus, msgs, redisUp, retired>>
     /\ frames' = frames + 1

ComHistGot(t) ==
  LET task == tasks[t]
      rows == getCommitsByDocument(commits, task.d)
  IN /\ task.pc = "ch_read"
     /\ \E got \in {rows, {}} :
          tasks' = [tasks EXCEPT ![t] =
                      [Done(task, 200) EXCEPT !.ups = {v.id : v \in got}]]
     /\ UNCHANGED <<conns, local, cache, dbSessions, updates, commits, nextUpdateId,
                    nextCommitId, bus, msgs, redisUp, retired, frames>>

----------------------------------------------------------------------------
(* WebSocketManager.handleAwareness *)

Awareness(t, c, dArg) ==
  LET ws == conns[c]
      n == NodeOf(c)
      base == [Idle EXCEPT !.op = "awareness", !.c = c, !.d = ArgDoc(dArg, ws),
                           !.s = ws.sessionDid]
      k == getSessionKey(ArgDoc(dArg, ws), ws.sessionDid)
  IN /\ Free(t)
     /\ ws.status = "open"
     /\ IF Unauthenticated(ws)
        THEN /\ tasks' = [tasks EXCEPT ![t] = Done(base, 401)]
             /\ UNCHANGED <<bus, msgs>>
        ELSE /\ CanBroadcast(n)
             /\ bus' = BroadcastBus(bus, k, n)
             /\ msgs' = BroadcastMsgs("AWARENESS_UPDATE", k, c, n)
             /\ tasks' = [tasks EXCEPT ![t] = Done(base, 200)]
     /\ UNCHANGED <<conns, local, cache, dbSessions, updates, commits, nextUpdateId,
                    nextCommitId, redisUp, retired>>
     /\ frames' = frames + 1

----------------------------------------------------------------------------
(* WebSocketManager.handleDisconnection, SessionManager.removeClientFromSession *)

\* The socket closes; its close handler starts handleDisconnection.
Disconnect(t, c) ==
  LET ws == conns[c]
  IN /\ Free(t)
     /\ ws.status = "open"
     /\ IF ws.authenticated /\ ws.documentId # "none" /\ ws.sessionDid # "none"
        THEN /\ conns' = [conns EXCEPT ![c].status = "closed"]
             /\ tasks' = [tasks EXCEPT ![t] =
                            [Idle EXCEPT !.op = "disconnect", !.c = c,
                                         !.d = ws.documentId, !.s = ws.sessionDid,
                                         !.pc = "dc_bcast"]]
        ELSE /\ conns' = [conns EXCEPT ![c].status = "gone"]
             /\ UNCHANGED tasks
     /\ UNCHANGED <<local, cache, dbSessions, updates, commits, nextUpdateId,
                    nextCommitId, bus, msgs, redisUp, retired>>
     /\ frames' = frames + 1

\* connections.delete(clientId) ends handleDisconnection.
Dropped(cs, c) == [cs EXCEPT ![c].status = "gone"]

\* The socket's other event (error before close, or close after error)
\* fires while the first handleDisconnection run is still at one of its
\* awaits: connections.get(clientId) still returns the socket, whose
\* authenticated, documentId and sessionDid fields nobody has cleared, so
\* the second run enters the same branch. "closed_both" records that both
\* listeners have fired.
DisconnectAgain(t, c) ==
  LET ws == conns[c]
  IN /\ Free(t)
     /\ ws.status = "closed"
     /\ conns' = [conns EXCEPT ![c].status = "closed_both"]
     /\ tasks' = [tasks EXCEPT ![t] =
                    [Idle EXCEPT !.op = "disconnect", !.c = c,
                                 !.d = ws.documentId, !.s = ws.sessionDid,
                                 !.pc = "dc_bcast"]]
     /\ UNCHANGED <<local, cache, dbSessions, updates, commits, nextUpdateId,
                    nextCommitId, bus, msgs, redisUp, retired>>
     /\ frames' = frames + 1

\* user_left is broadcast, then removeClientFromSession takes the client out
\* of the in-memory set; an emptied set means deactivateSession.
DcBcast(t) ==
  LET task == tasks[t]
      c == task.c
      n == TNode(task)
      k == TKey(task)
      left == local[n][k].clients \ {c}
      empties == local[n][k].present /\ left = {}
  IN /\ task.pc = "dc_bcast"
     /\ CanBroadcast(n)
     /\ bus' = BroadcastBus(bus, k, n)
     /\ msgs' = BroadcastMsgs("user_left", k, c, n)
     /\ local' = IF ~local[n][k].present THEN local
                 ELSE IF empties THEN [local EXCEPT ![n][k] = NoSess]
                 ELSE [local EXCEPT ![n][k].clients = left]
     /\ IF redisUp
        THEN /\ tasks' = [(IF empties THEN Inval(tasks, n, k) ELSE tasks) EXCEPT ![t] =
                            [task EXCEPT !.pc = IF empties THEN "dc_rdel" ELSE "dc_rget"]]
             /\ UNCHANGED conns
        ELSE /\ tasks' = [(IF empties THEN Inval(tasks, n, k) ELSE tasks) EXCEPT ![t] =
                            Done(task, 0)]
             /\ conns' = Dropped(conns, c)
     /\ UNCHANGED <<cache, dbSessions, updates, commits, nextUpdateId,
                    nextCommitId, redisUp, retired, frames>>

\* deactivateSession: redisStore.deleteSession.
DcRedisDel(t) ==
  LET task == tasks[t]
      n == TNode(task)
      k == TKey(task)
  IN /\ task.pc = "dc_rdel"
     /\ CanPublish(n, 1)
     /\ cache' = [cache EXCEPT ![k] = NoSess]
     /\ bus' = Publish(bus, n, <<Ev("SESSION_DELETED", k, "none", {}, "none", 0)>>)
     /\ conns' = Dropped(conns, task.c)
     /\ tasks' = [tasks EXCEPT ![t] = Done(task, 0)]
     /\ UNCHANGED <<local, dbSessions, updates, commits, nextUpdateId,
                    nextCommitId, msgs, redisUp, retired, frames>>

\* redisStore.removeClientFromSession: the cached record is read, the client
\* filtered out and CLIENT_LEFT published ...
DcRedisGet(t) ==
  LET task == tasks[t]
      n == TNode(task)
      k == TKey(task)
      cl == cache[k].clients \ {task.c}
  IN /\ task.pc = "dc_rget"
     /\ IF ~cache[k].present
        THEN /\ tasks' = [tasks EXCEPT ![t] = Done(task, 0)]
             /\ conns' = Dropped(conns, task.c)
             /\ UNCHANGED bus
        ELSE /\ CanPublish(n, 1)
             /\ bus' = Publish(bus, n, <<Ev("CLIENT_LEFT", k, "none", {}, task.c, 0)>>)
             /\ tasks' = [tasks EXCEPT ![t] =
                            [task EXCEPT !.tmp = [cache[k] EXCEPT !.clients = cl],
                                         !.pc = "dc_rset"]]
             /\ UNCHANGED conns
     /\ UNCHANGED <<local, cache, dbSessions, updates, commits, nextUpdateId,
                    nextCommitId, msgs, redisUp, retired, frames>>

\* ... and the record is deleted when no client is left, written back
\* otherwise.
DcRedisSet(t) ==
  LET task == tasks[t]
      n == TNode(task)
      k == TKey(task)
  IN /\ task.pc = "dc_rset"
     /\ CanPublish(n, 1)
     /\ IF task.tmp.clients = {}
        THEN /\ cache' = [cache EXCEPT ![k] = NoSess]
             /\ bus' = Publish(bus, n, <<Ev("SESSION_DELETED", k, "none", {}, "none", 0)>>)
        ELSE /\ cache' = [cache EXCEPT ![k] = task.tmp]
             /\ bus' = Publish(bus, n,
                         <<EvR("SESSION_UPDATED", k, task.tmp.ownerDid,
                               task.tmp.clients, task.tmp.roomInfo)>>)
     /\ conns' = Dropped(conns, task.c)
     /\ tasks' = [tasks EXCEPT ![t] = Done(task, 0)]
     /\ UNCHANGED <<local, dbSessions, updates, commits, nextUpdateId,
                    nextCommitId, msgs, redisUp, retired, frames>>

----------------------------------------------------------------------------
(* SessionManager.setupRedisEventHandlers: one event reaches node n *)

OnSessionEvent(n) ==
  LET ev == Head(bus[n])
      k == ev.k
      here == local[n][k].present
  IN /\ bus[n] # <<>>
     /\ bus' = [bus EXCEPT ![n] = Tail(@)]
     /\ local' =
          CASE ev.type = "SESSION_CREATED" ->
                 [local EXCEPT ![n][k] = SessR(ev.ownerDid, ev.clients, ev.roomInfo)]
            [] ev.type = "SESSION_UPDATED" /\ here ->
                 [local EXCEPT ![n][k].clients = ev.clients,
                               ![n][k].roomInfo = ev.roomInfo]
            [] ev.type = "ROOM_INFO_UPDATED" /\ here ->
                 [local EXCEPT ![n][k].roomInfo = ev.roomInfo]
            [] ev.type = "SESSION_DELETED" ->
                 [local EXCEPT ![n][k] = NoSess]
            [] ev.type = "CLIENT_JOINED" /\ here ->
                 [local EXCEPT ![n][k].clients = @ \cup {ev.clientId}]
            [] ev.type = "CLIENT_LEFT" /\ here ->
                 [local EXCEPT ![n][k].clients = @ \ {ev.clientId}]
            [] OTHER -> local
     /\ tasks' = IF ev.type \in {"SESSION_CREATED", "SESSION_DELETED"}
                 THEN Inval(tasks, n, k) ELSE tasks
     /\ msgs' = IF ev.type = "BROADCAST_MESSAGE"
                THEN handleCrossDynoBroadcast(msgs, ev.m, n, local, conns)
                ELSE msgs
     /\ UNCHANGED <<conns, cache, dbSessions, updates, commits, nextUpdateId,
                    nextCommitId, redisUp, retired, frames>>

----------------------------------------------------------------------------
(* The system *)

Init ==
  /\ conns = [c \in Conns |-> NoConn]
  /\ local = [n \in Nodes |-> [k \in Keys |-> NoSess]]
  /\ cache = [k \in Keys |-> NoSess]
  /\ dbSessions = <<>>
  /\ updates = {}
  /\ commits = {}
  /\ nextUpdateId = 1
  /\ nextCommitId = 1
  /\ bus = [n \in Nodes |-> <<>>]
  /\ msgs = <<>>
  /\ tasks = [t \in TaskIds |-> Idle]
  /\ redisUp \in BOOLEAN
  /\ retired = {}
  /\ frames = 0

OwnerTokens == {"none", "bad"} \cup Owners
CollabTokens == {"none", "bad"} \cup Sids
DocArgs == {"none"} \cup Docs

Next ==
  \/ \E c \in Conns : Connect(c)
  \/ \E t \in TaskIds : Retire(t)
  \/ \E t \in TaskIds : GetSessionCache(t)
  \/ \E t \in TaskIds : GetSessionDb(t)
  \/ \E t \in TaskIds : GetSessionWarm(t)
  \/ \E t \in TaskIds, c \in Conns, d \in Docs, s \in Sids,
        ctok \in CollabTokens, otok \in OwnerTokens,
        r \in {"none", "r1", "r2"} :
        StartAuthRoom(t, c, d, s, ctok, otok, r)
  \/ \E t \in TaskIds : AuthGot(t)
  \/ \E t \in TaskIds : CreateSessionCache(t)
  \/ \E t \in TaskIds : CreateSessionDb(t)
  \/ \E t \in TaskIds : JoinGot(t)
  \/ \E t \in TaskIds : RoomRedisGet(t)
  \/ \E t \in TaskIds : RoomRedisSet(t)
  \/ \E t \in TaskIds : RoomDb(t)
  \/ \E t \in TaskIds : AddGot(t)
  \/ \E t \in TaskIds : AddRedisGet(t)
  \/ \E t \in TaskIds : AddRedisSet(t)
  \/ \E t \in TaskIds, c \in Conns, d \in Docs, s \in Sids, otok \in OwnerTokens :
        StartTerminate(t, c, d, s, otok)
  \/ \E t \in TaskIds : TermGot(t)
  \/ \E t \in TaskIds : TermRedisDel(t)
  \/ \E t \in TaskIds : TermDbState(t)
  \/ \E t \in TaskIds : TermDbUpdates(t)
  \/ \E t \in TaskIds : TermDbCommits(t)
  \/ \E t \in TaskIds, c \in Conns, dArg \in DocArgs, ctok \in CollabTokens :
        StartUpdate(t, c, dArg, ctok)
  \/ \E t \in TaskIds : UpdGot(t)
  \/ \E t \in TaskIds : UpdSave(t)
  \/ \E t \in TaskIds, c \in Conns, dArg \in DocArgs,
        ups \in SUBSET ((1..MaxUpdates) \cup GhostIds),
        cid \in {"none"} \cup Cids, otok \in OwnerTokens :
        StartCommit(t, c, dArg, ups, cid, otok)
  \/ \E t \in TaskIds : ComGot(t)
  \/ \E t \in TaskIds : ComSave(t)
  \/ \E t \in TaskIds : ComMark(t)
  \/ \E t \in TaskIds, c \in Conns, dArg \in DocArgs : Awareness(t, c, dArg)
  \/ \E t \in TaskIds, c \in Conns, dArg \in DocArgs : StartPeers(t, c, dArg)
  \/ \E t \in TaskIds : PeersGot(t)
  \/ \E t \in TaskIds, c \in Conns, code \in {400, 404} : BadFrame(t, c, code)
  \/ \E t \in TaskIds, c \in Conns, dArg \in DocArgs,
        committed \in {BOOLEAN, {TRUE}, {FALSE}} :
        StartUpdateHistory(t, c, dArg, committed)
  \/ \E t \in TaskIds : UpdHistGot(t)
  \/ \E t \in TaskIds, c \in Conns, dArg \in DocArgs : StartCommitHistory(t, c, dArg)
  \/ \E t \in TaskIds : ComHistGot(t)
  \/ \E t \in TaskIds, c \in Conns : Disconnect(t, c)
  \/ \E t \in TaskIds : DcBcast(t)
  \/ \E t \in TaskIds : DcRedisDel(t)
  \/ \E t \in TaskIds : DcRedisGet(t)
  \/ \E t \in TaskIds : DcRedisSet(t)
  \/ \E n \in Nodes : OnSessionEvent(n)

Spec == Init /\ [][Next]_vars

----------------------------------------------------------------------------
(* Session lifecycle: /auth, /documents/terminate and socket closes from    *)
(* one connection on node n1, node n2 listening on the bus, Redis connected *)
(* or not.                                                                  *)

LifeConns == {"c1"}
LifeOwnerTokens == {"bad", "o1"}

NextLife ==
  \/ \E c \in LifeConns : Connect(c)
  \/ \E t \in TaskIds : Retire(t)
  \/ \E t \in TaskIds : GetSessionCache(t)
  \/ \E t \in TaskIds : GetSessionDb(t)
  \/ \E t \in TaskIds : GetSessionWarm(t)
  \/ \E t \in TaskIds, c \in LifeConns, otok \in LifeOwnerTokens :
        StartAuth(t, c, "d1", "s1", "s1", otok)
  \/ \E t \in TaskIds : AuthGot(t)
  \/ \E t \in TaskIds : CreateSessionCache(t)
  \/ \E t \in TaskIds : CreateSessionDb(t)
  \/ \E t \in TaskIds : JoinGot(t)
  \/ \E t \in TaskIds : AddGot(t)
  \/ \E t \in TaskIds : AddRedisGet(t)
  \/ \E t \in TaskIds : AddRedisSet(t)
  \/ \E t \in TaskIds, c \in LifeConns, otok \in LifeOwnerTokens :
        StartTerminate(t, c, "d1", "s1", otok)
  \/ \E t \in TaskIds : TermGot(t)
  \/ \E t \in TaskIds : TermRedisDel(t)
  \/ \E t \in TaskIds : TermDbState(t)
  \/ \E t \in TaskIds : TermDbUpdates(t)
  \/ \E t \in TaskIds : TermDbCommits(t)
  \/ \E t \in TaskIds, c \in LifeConns : Disconnect(t, c)
  \/ \E t \in TaskIds : DcBcast(t)
  \/ \E t \in TaskIds : DcRedisDel(t)
  \/ \E t \in TaskIds : DcRedisGet(t)
  \/ \E t \in TaskIds : DcRedisSet(t)
  \/ \E n \in Nodes : OnSessionEvent(n)

SpecLife == Init /\ [][NextLife]_vars

----------------------------------------------------------------------------
(* The update/commit log under one owner connection, Redis disconnected:    *)
(* /auth, /documents/update, /documents/commit and /documents/terminate     *)
(* from connection c1, two handlers in flight at a time.                    *)

InitLog == Init /\ ~redisUp

NextLog ==
  \/ Connect("c1")
  \/ \E t \in TaskIds : Retire(t)
  \/ \E t \in TaskIds : GetSessionDb(t)
  \/ \E t \in TaskIds : StartAuth(t, "c1", "d1", "s1", "s1", "o1")
  \/ \E t \in TaskIds : AuthGot(t)
  \/ \E t \in TaskIds : CreateSessionDb(t)
  \/ \E t \in TaskIds : JoinGot(t)
  \/ \E t \in TaskIds : AddGot(t)
  \/ \E t \in TaskIds : StartTerminate(t, "c1", "d1", "s1", "o1")
  \/ \E t \in TaskIds : TermGot(t)
  \/ \E t \in TaskIds : TermDbState(t)
  \/ \E t \in TaskIds : TermDbUpdates(t)
  \/ \E t \in TaskIds : TermDbCommits(t)
  \/ \E t \in TaskIds : StartUpdate(t, "c1", "none", "s1")
  \/ \E t \in TaskIds : UpdGot(t)
  \/ \E t \in TaskIds : UpdSave(t)
  \/ \E t \in TaskIds, ups \in SUBSET (1..MaxUpdates), cid \in {"none"} \cup Cids :
        StartCommit(t, "c1", "none", ups, cid, "o1")
  \/ \E t \in TaskIds : ComGot(t)
  \/ \E t \in TaskIds : ComSave(t)
  \/ \E t \in TaskIds : ComMark(t)

SpecLog == InitLog /\ [][NextLog]_vars

----------------------------------------------------------------------------
(* Racing /auth requests and fan-out: two connections on node n1, each with *)
(* the owner token of a different owner, Redis connected, node n2 listening *)
(* on the bus.                                                              *)

RaceConns == {"c1", "c2"}
RaceToken(c) == IF c = "c1" THEN "o1" ELSE "o2"

InitRace == Init /\ redisUp

NextRace ==
  \/ \E c \in RaceConns : Connect(c)
  \/ \E t \in TaskIds : Retire(t)
  \/ \E t \in TaskIds : GetSessionCache(t)
  \/ \E t \in TaskIds : GetSessionDb(t)
  \/ \E t \in TaskIds : GetSessionWarm(t)
  \/ \E t \in TaskIds, c \in RaceConns :
        StartAuth(t, c, "d1", "s1", "s1", RaceToken(c))
  \/ \E t \in TaskIds : AuthGot(t)
  \/ \E t \in TaskIds : CreateSessionCache(t)
  \/ \E t \in TaskIds : CreateSessionDb(t)
  \/ \E t \in TaskIds : JoinGot(t)
  \/ \E t \in TaskIds : AddGot(t)
  \/ \E t \in TaskIds : AddRedisGet(t)
  \/ \E t \in TaskIds : AddRedisSet(t)
  \/ \E t \in TaskIds, c \in RaceConns : Awareness(t, c, "none")
  \/ \E n \in Nodes : OnSessionEvent(n)

SpecRace == InitRace /\ [][NextRace]_vars

----------------------------------------------------------------------------
(* One connection authenticating again and again, to either document,       *)
(* Redis connected.                                                         *)

NextMove ==
  \/ Connect("c1")
  \/ \E t \in TaskIds : Retire(t)
  \/ \E t \in TaskIds : GetSessionCache(t)
  \/ \E t \in TaskIds : GetSessionDb(t)
  \/ \E t \in TaskIds : GetSessionWarm(t)
  \/ \E t \in TaskIds, d \in Docs : StartAuth(t, "c1", d, "s1", "s1", "o1")
  \/ \E t \in TaskIds : AuthGot(t)
  \/ \E t \in TaskIds : CreateSessionCache(t)
  \/ \E t \in TaskIds : CreateSessionDb(t)
  \/ \E t \in TaskIds : JoinGot(t)
  \/ \E t \in TaskIds : AddGot(t)
  \/ \E t \in TaskIds : AddRedisGet(t)
  \/ \E t \in TaskIds : AddRedisSet(t)
  \/ \E n \in Nodes : OnSessionEvent(n)

SpecMove == InitRace /\ [][NextMove]_vars

----------------------------------------------------------------------------
(* Request arguments: connection c1 owns (d1, s1), connection c2 owns       *)
(* (d2, s1); c1 sends updates and commits that name either document, list   *)
(* ids of updates that do not exist and carry either owner's token.  Redis  *)
(* disconnected.                                                            *)

ArgDocOf(c) == IF c = "c1" THEN "d1" ELSE "d2"

NextArg ==
  \/ \E c \in RaceConns : Connect(c)
  \/ \E t \in TaskIds : Retire(t)
  \/ \E t \in TaskIds : GetSessionDb(t)
  \/ \E t \in TaskIds, c \in RaceConns :
        StartAuth(t, c, ArgDocOf(c), "s1", "s1", RaceToken(c))
  \/ \E t \in TaskIds : AuthGot(t)
  \/ \E t \in TaskIds : CreateSessionDb(t)
  \/ \E t \in TaskIds : JoinGot(t)
  \/ \E t \in TaskIds : AddGot(t)
  \/ \E t \in TaskIds, dArg \in DocArgs : StartUpdate(t, "c1", dArg, "s1")
  \/ \E t \in TaskIds : UpdGot(t)
  \/ \E t \in TaskIds : UpdSave(t)
  \/ \E t \in TaskIds, ups \in SUBSET ((1..MaxUpdates) \cup GhostIds), otok \in Owners :
        StartCommit(t, "c1", "none", ups, "cidA", otok)
  \/ \E t \in TaskIds : ComGot(t)
  \/ \E t \in TaskIds : ComSave(t)
  \/ \E t \in TaskIds : ComMark(t)

SpecArg == InitLog /\ [][NextArg]_vars

----------------------------------------------------------------------------
(* Requests without authority: connection c1 sets the session (d1, s1) up   *)
(* as owner o1 and may leave; connection c2 presents no or a failing owner  *)
(* token in /auth and a failing or another owner's token in                 *)
(* /documents/terminate.  Redis connected.                                  *)

TermAuthTokens(c) == IF c = "c1" THEN {"o1"} ELSE {"none", "bad"}
TermTokens == {"bad", "o2"}

NextTerm ==
  \/ \E c \in RaceConns : Connect(c)
  \/ \E t \in TaskIds : Retire(t)
  \/ \E t \in TaskIds : GetSessionCache(t)
  \/ \E t \in TaskIds : GetSessionDb(t)
  \/ \E t \in TaskIds : GetSessionWarm(t)
  \/ \E t \in TaskIds, c \in RaceConns : \E otok \in TermAuthTokens(c) :
        StartAuth(t, c, "d1", "s1", "s1", otok)
  \/ \E t \in TaskIds : AuthGot(t)
  \/ \E t \in TaskIds : CreateSessionCache(t)
  \/ \E t \in TaskIds : CreateSessionDb(t)
  \/ \E t \in TaskIds : JoinGot(t)
  \/ \E t \in TaskIds : AddGot(t)
  \/ \E t \in TaskIds : AddRedisGet(t)
  \/ \E t \in TaskIds : AddRedisSet(t)
  \/ \E t \in TaskIds, otok \in TermTokens : StartTerminate(t, "c2", "d1", "s1", otok)
  \/ \E t \in TaskIds : TermGot(t)
  \/ \E t \in TaskIds : Disconnect(t, "c1")
  \/ \E t \in TaskIds : DcBcast(t)
  \/ \E t \in TaskIds : DcRedisDel(t)
  \/ \E t \in TaskIds : DcRedisGet(t)
  \/ \E t \in TaskIds : DcRedisSet(t)
  \/ \E n \in Nodes : OnSessionEvent(n)

SpecTerm == InitRace /\ [][NextTerm]_vars

----------------------------------------------------------------------------
(* Two owners: connections c1 and c2 on node n1 send /auth and              *)
(* /documents/terminate for (d1, s1), c1 with the owner token of o1 and c2  *)
(* with the owner token of o2.  Redis disconnected.                         *)

NextOwn ==
  \/ \E c \in RaceConns : Connect(c)
  \/ \E t \in TaskIds : Retire(t)
  \/ \E t \in TaskIds : GetSessionDb(t)
  \/ \E t \in TaskIds, c \in RaceConns :
        StartAuth(t, c, "d1", "s1", "s1", RaceToken(c))
  \/ \E t \in TaskIds : AuthGot(t)
  \/ \E t \in TaskIds : CreateSessionDb(t)
  \/ \E t \in TaskIds : JoinGot(t)
  \/ \E t \in TaskIds : AddGot(t)
  \/ \E t \in TaskIds, c \in RaceConns :
        StartTerminate(t, c, "d1", "s1", RaceToken(c))
  \/ \E t \in TaskIds : TermGot(t)
  \/ \E t \in TaskIds : TermDbState(t)
  \/ \E t \in TaskIds : TermDbUpdates(t)
  \/ \E t \in TaskIds : TermDbCommits(t)

SpecOwn == InitLog /\ [][NextOwn]_vars

\* The join path alone: Redis disconnected, c1 sets the session up or joins
\* it with owner o1's token, c2 sends every combination of collaboration
\* token and owner token.
JoinCollabTokens(c) == IF c = "c1" THEN {"s1"} ELSE {"bad", "s1"}
JoinOwnerTokens(c) == IF c = "c1" THEN {"o1"} ELSE {"none", "bad", "o1", "o2"}

NextJoin ==
  \/ \E c \in RaceConns : Connect(c)
  \/ \E t \in TaskIds : Retire(t)
  \/ \E t \in TaskIds : GetSessionDb(t)
  \/ \E t \in TaskIds, c \in RaceConns :
        \E ctok \in JoinCollabTokens(c), otok \in JoinOwnerTokens(c) :
           StartAuth(t, c, "d1", "s1", ctok, otok)
  \/ \E t \in TaskIds : AuthGot(t)
  \/ \E t \in TaskIds : CreateSessionDb(t)
  \/ \E t \in TaskIds : JoinGot(t)
  \/ \E t \in TaskIds : AddGot(t)

SpecJoin == InitLog /\ [][NextJoin]_vars


\* Re-entry after idle deactivation: owner o1 sets session (d1,s1) up on
\* c1 and c1 closes; once c1 is gone the owner sends /auth again on c2.  The
\* collaboration token of a frame is one that verifies or one that does not.
RejoinCollabTokens == {"bad", "s1"}

\* No handler is running, no tier lists a client of the session and a durable
\* record of it is left that is not terminated.
Deactivated(k) ==
  /\ \A u \in TaskIds : tasks[u].pc \in {"idle", "done"}
  /\ \A n \in Nodes : local[n][k].clients = {}
  /\ cache[k].clients = {}
  /\ FindLive(k) # {}

Rejoin(t, ctok) ==
  /\ conns["c1"].status = "gone"
  /\ Deactivated(getSessionKey("d1", "s1"))
  /\ StartAuth(t, "c2", "d1", "s1", ctok, "o1")

NextRejoin ==
  \/ \E c \in RaceConns : Connect(c)
  \/ \E t \in TaskIds : Retire(t)
  \/ \E t \in TaskIds : GetSessionCache(t)
  \/ \E t \in TaskIds : GetSessionDb(t)
  \/ \E t \in TaskIds : GetSessionWarm(t)
  \/ \E t \in TaskIds, ctok \in RejoinCollabTokens :
        StartAuth(t, "c1", "d1", "s1", ctok, "o1")
  \/ \E t \in TaskIds, ctok \in RejoinCollabTokens : Rejoin(t, ctok)
  \/ \E t \in TaskIds : AuthGot(t)
  \/ \E t \in TaskIds : CreateSessionCache(t)
  \/ \E t \in TaskIds : CreateSessionDb(t)
  \/ \E t \in TaskIds : JoinGot(t)
  \/ \E t \in TaskIds : AddGot(t)
  \/ \E t \in TaskIds : AddRedisGet(t)
  \/ \E t \in TaskIds : AddRedisSet(t)
  \/ \E t \in TaskIds : Disconnect(t, "c1")
  \/ \E t \in TaskIds : DcBcast(t)
  \/ \E t \in TaskIds : DcRedisDel(t)
  \/ \E n \in Nodes : OnSessionEvent(n)

SpecRejoin == Init /\ [][NextRejoin]_vars

\* Two nodes: c1 on n1 sets the session up, c3 on n2 joins it, either asks
\* for the peers list and c3 may close; Redis connected.
CrossConns == {"c1", "c3"}
CrossToken(c) == IF c = "c1" THEN "o1" ELSE "none"

NextCross ==
  \/ \E c \in CrossConns : Connect(c)
  \/ \E t \in TaskIds : Retire(t)
  \/ \E t \in TaskIds : GetSessionCache(t)
  \/ \E t \in TaskIds : GetSessionDb(t)
  \/ \E t \in TaskIds : GetSessionWarm(t)
  \/ \E t \in TaskIds, c \in CrossConns :
        StartAuth(t, c, "d1", "s1", "s1", CrossToken(c))
  \/ \E t \in TaskIds : AuthGot(t)
  \/ \E t \in TaskIds : CreateSessionCache(t)
  \/ \E t \in TaskIds : CreateSessionDb(t)
  \/ \E t \in TaskIds : JoinGot(t)
  \/ \E t \in TaskIds : AddGot(t)
  \/ \E t \in TaskIds : AddRedisGet(t)
  \/ \E t \in TaskIds : AddRedisSet(t)
  \/ \E t \in TaskIds, c \in CrossConns : StartPeers(t, c, "none")
  \/ \E t \in TaskIds : PeersGot(t)
  \/ \E t \in TaskIds : Disconnect(t, "c3")
  \/ \E t \in TaskIds : DcBcast(t)
  \/ \E t \in TaskIds : DcRedisDel(t)
  \/ \E t \in TaskIds : DcRedisGet(t)
  \/ \E t \in TaskIds : DcRedisSet(t)
  \/ \E n \in Nodes : OnSessionEvent(n)

SpecCross == InitRace /\ [][NextCross]_vars

\* Protocol errors and handler exceptions on one connection: /auth frames
\* for either document with valid tokens, malformed frames and frames with an
\* unknown cmd; Redis disconnected, MongoDB may throw.
NextErr ==
  \/ Connect("c1")
  \/ \E t \in TaskIds : Retire(t)
  \/ \E t \in TaskIds : GetSessionDb(t)
  \/ \E t \in TaskIds, d \in Docs : StartAuth(t, "c1", d, "s1", "s1", "o1")
  \/ \E t \in TaskIds : AuthGot(t)
  \/ \E t \in TaskIds : CreateSessionDb(t)
  \/ \E t \in TaskIds : JoinGot(t)
  \/ \E t \in TaskIds : AddGot(t)
  \/ \E t \in TaskIds, code \in {400, 404} : BadFrame(t, "c1", code)

SpecErr == InitLog /\ [][NextErr]_vars

\* Redis connected; c1 holds the owner token of d1/s1 and supplies a
\* roomInfo with its /auth frames, c2 comes with the collaboration token
\* only and supplies a roomInfo of its own. Each client waits for the
\* reply to its frame before it sends the next one.
NextRoom ==
  \/ \E c \in {"c1", "c2"} : Connect(c)
  \/ \E t \in TaskIds : Retire(t)
  \/ \E t \in TaskIds : GetSessionCache(t)
  \/ \E t \in TaskIds : GetSessionDb(t)
  \/ \E t \in TaskIds : GetSessionWarm(t)
  \/ \E t \in TaskIds, r \in {"r1", "r2"} :
        /\ Awaited("c1")
        /\ StartAuthRoom(t, "c1", "d1", "s1", "s1", "o1", r)
  \/ \E t \in TaskIds :
        /\ Awaited("c2")
        /\ StartAuthRoom(t, "c2", "d1", "s1", "s1", "none", "r3")
  \/ \E t \in TaskIds : AuthGot(t)
  \/ \E t \in TaskIds : CreateSessionCache(t)
  \/ \E t \in TaskIds : CreateSessionDb(t)
  \/ \E t \in TaskIds : JoinGot(t)
  \/ \E t \in TaskIds : RoomRedisGet(t)
  \/ \E t \in TaskIds : RoomRedisSet(t)
  \/ \E t \in TaskIds : RoomDb(t)
  \/ \E t \in TaskIds : AddGot(t)
  \/ \E t \in TaskIds : AddRedisGet(t)
  \/ \E t \in TaskIds : AddRedisSet(t)
  \/ \E n \in Nodes : OnSessionEvent(n)

SpecRoom == InitRace /\ [][NextRoom]_vars

\* Redis down, one node: c1 sets d1/s1 up, c2 joins with the collaboration
\* token, both send updates and awareness. Each client waits for the reply
\* to its frame before it sends the next one.
NextSolo ==
  \/ \E c \in {"c1", "c2"} : Connect(c)
  \/ \E t \in TaskIds : Retire(t)
  \/ \E t \in TaskIds : GetSessionDb(t)
  \/ \E t \in TaskIds : Awaited("c1") /\ StartAuth(t, "c1", "d1", "s1", "s1", "o1")
  \/ \E t \in TaskIds : Awaited("c2") /\ StartAuth(t, "c2", "d1", "s1", "s1", "none")
  \/ \E t \in TaskIds : AuthGot(t)
  \/ \E t \in TaskIds : CreateSessionDb(t)
  \/ \E t \in TaskIds : JoinGot(t)
  \/ \E t \in TaskIds : AddGot(t)
  \/ \E t \in TaskIds, c \in {"c1", "c2"} : Awaited(c) /\ StartUpdate(t, c, "none", "s1")
  \/ \E t \in TaskIds : UpdGot(t)
  \/ \E t \in TaskIds : UpdSave(t)
  \/ \E t \in TaskIds, c \in {"c1", "c2"} : Awaited(c) /\ Awareness(t, c, "none")

SpecSolo == InitLog /\ [][NextSolo]_vars

\* Redis connected; the owner c1 on n1 sets d1/s1 up and terminates it, c3
\* on n2 joins and sends updates. Each client waits for the reply to its
\* frame before it sends the next one.
NextStale ==
  \/ \E c \in {"c1", "c3"} : Connect(c)
  \/ \E t \in TaskIds : Retire(t)
  \/ \E t \in TaskIds : GetSessionCache(t)
  \/ \E t \in TaskIds : GetSessionDb(t)
  \/ \E t \in TaskIds : GetSessionWarm(t)
  \/ \E t \in TaskIds : Awaited("c1") /\ StartAuth(t, "c1", "d1", "s1", "s1", "o1")
  \/ \E t \in TaskIds : Awaited("c3") /\ StartAuth(t, "c3", "d1", "s1", "s1", "none")
  \/ \E t \in TaskIds : AuthGot(t)
  \/ \E t \in TaskIds : CreateSessionCache(t)
  \/ \E t \in TaskIds : CreateSessionDb(t)
  \/ \E t \in TaskIds : JoinGot(t)
  \/ \E t \in TaskIds : AddGot(t)
  \/ \E t \in TaskIds : AddRedisGet(t)
  \/ \E t \in TaskIds : AddRedisSet(t)
  \/ \E t \in TaskIds : Awaited("c1") /\ StartTerminate(t, "c1", "d1", "s1", "o1")
  \/ \E t \in TaskIds : TermGot(t)
  \/ \E t \in TaskIds : TermRedisDel(t)
  \/ \E t \in TaskIds : TermDbState(t)
  \/ \E t \in TaskIds : TermDbUpdates(t)
  \/ \E t \in TaskIds : TermDbCommits(t)
  \/ \E t \in TaskIds : Awaited("c3") /\ StartUpdate(t, "c3", "none", "s1")
  \/ \E t \in TaskIds : UpdGot(t)
  \/ \E t \in TaskIds : UpdSave(t)
  \/ \E n \in Nodes : OnSessionEvent(n)

SpecStale == InitRace /\ [][NextStale]_vars

\* Redis down, one node: the owner c1 sets d1/s1 up and terminates it, c2
\* sends its /auth frames after the setup has been answered. Each client
\* waits for the reply to its frame before it sends the next one.
NextLate ==
  \/ \E c \in {"c1", "c2"} : Connect(c)
  \/ \E t \in TaskIds : Retire(t)
  \/ \E t \in TaskIds : GetSessionDb(t)
  \/ \E t \in TaskIds : Awaited("c1") /\ StartAuth(t, "c1", "d1", "s1", "s1", "o1")
  \/ \E t \in TaskIds :
        /\ Awaited("c1") /\ conns["c1"].authenticated
        /\ Awaited("c2")
        /\ StartAuth(t, "c2", "d1", "s1", "s1", "none")
  \/ \E t \in TaskIds : AuthGot(t)
  \/ \E t \in TaskIds : CreateSessionDb(t)
  \/ \E t \in TaskIds : JoinGot(t)
  \/ \E t \in TaskIds : AddGot(t)
  \/ \E t \in TaskIds : Awaited("c1") /\ StartTerminate(t, "c1", "d1", "s1", "o1")
  \/ \E t \in TaskIds : TermGot(t)
  \/ \E t \in TaskIds : TermDbState(t)
  \/ \E t \in TaskIds : TermDbUpdates(t)
  \/ \E t \in TaskIds : TermDbCommits(t)

SpecLate == InitLog /\ [][NextLate]_vars

\* Redis down, one connection whose /auth frames name d1 or d2 and carry a
\* good or a bad owner token, with or without a collaboration token. The
\* client waits for the reply to its frame before it sends the next one.
NextFail ==
  \/ Connect("c1")
  \/ \E t \in TaskIds : Retire(t)
  \/ \E t \in TaskIds : GetSessionDb(t)
  \/ \E t \in TaskIds, d \in Docs, ctok \in {"none", "s1"}, otok \in {"bad", "o1"} :
        Awaited("c1") /\ StartAuth(t, "c1", d, "s1", ctok, otok)
  \/ \E t \in TaskIds : AuthGot(t)
  \/ \E t \in TaskIds : CreateSessionDb(t)
  \/ \E t \in TaskIds : JoinGot(t)
  \/ \E t \in TaskIds : AddGot(t)

SpecFail == InitLog /\ [][NextFail]_vars

\* Redis down, c1 owns (d1,s1) and c2 owns (d2,s1). c2 writes update rows
\* and commits to its own document; c1 reads the two histories with or
\* without args.documentId. Each client waits for the reply to its frame.
NextHist ==
  \/ \E c \in RaceConns : Connect(c)
  \/ \E t \in TaskIds : Retire(t)
  \/ \E t \in TaskIds : GetSessionDb(t)
  \/ \E t \in TaskIds, c \in RaceConns :
        Awaited(c) /\ StartAuth(t, c, ArgDocOf(c), "s1", "s1", RaceToken(c))
  \/ \E t \in TaskIds : AuthGot(t)
  \/ \E t \in TaskIds : CreateSessionDb(t)
  \/ \E t \in TaskIds : JoinGot(t)
  \/ \E t \in TaskIds : AddGot(t)
  \/ \E t \in TaskIds : Awaited("c2") /\ StartUpdate(t, "c2", "none", "s1")
  \/ \E t \in TaskIds : UpdGot(t)
  \/ \E t \in TaskIds : UpdSave(t)
  \/ \E t \in TaskIds, ups \in SUBSET (1..MaxUpdates) :
        Awaited("c2") /\ StartCommit(t, "c2", "none", ups, "cidA", "o2")
  \/ \E t \in TaskIds : ComGot(t)
  \/ \E t \in TaskIds : ComSave(t)
  \/ \E t \in TaskIds : ComMark(t)
  \/ \E t \in TaskIds, dArg \in DocArgs, committed \in {BOOLEAN, {TRUE}, {FALSE}} :
        Awaited("c1") /\ StartUpdateHistory(t, "c1", dArg, committed)
  \/ \E t \in TaskIds : UpdHistGot(t)
  \/ \E t \in TaskIds, dArg \in DocArgs :
        Awaited("c1") /\ StartCommitHistory(t, "c1", dArg)
  \/ \E t \in TaskIds : ComHistGot(t)

SpecHist == InitLog /\ [][NextHist]_vars

\* Redis up, c1 and c2 on n1 in session (d1,s1). A closing socket may
\* fire both its error and its close event.
NextDrop ==
  \/ \E c \in RaceConns : Connect(c)
  \/ \E t \in TaskIds : Retire(t)
  \/ \E t \in TaskIds : GetSessionCache(t)
  \/ \E t \in TaskIds : GetSessionDb(t)
  \/ \E t \in TaskIds : GetSessionWarm(t)
  \/ \E t \in TaskIds : Awaited("c1") /\ StartAuth(t, "c1", "d1", "s1", "s1", "o1")
  \/ \E t \in TaskIds : Awaited("c2") /\ StartAuth(t, "c2", "d1", "s1", "s1", "none")
  \/ \E t \in TaskIds : AuthGot(t)
  \/ \E t \in TaskIds : CreateSessionCache(t)
  \/ \E t \in TaskIds : CreateSessionDb(t)
  \/ \E t \in TaskIds : JoinGot(t)
  \/ \E t \in TaskIds : AddGot(t)
  \/ \E t \in TaskIds : AddRedisGet(t)
  \/ \E t \in TaskIds : AddRedisSet(t)
  \/ \E t \in TaskIds, c \in RaceConns : Awaited(c) /\ Disconnect(t, c)
  \/ \E t \in TaskIds, c \in RaceConns : DisconnectAgain(t, c)
  \/ \E t \in TaskIds : DcBcast(t)
  \/ \E t \in TaskIds : DcRedisDel(t)
  \/ \E t \in TaskIds : DcRedisGet(t)
  \/ \E t \in TaskIds : DcRedisSet(t)
  \/ \E n \in Nodes : OnSessionEvent(n)

SpecDrop == InitRace /\ [][NextDrop]_vars

----------------------------------------------------------------------------
(* Properties *)

HasReplied(t, op, code) ==
  tasks[t].pc = "done" /\ tasks[t].op = op /\ tasks[t].code = code

Member(c, k) ==
  \/ \E n \in Nodes : c \in local[n][k].clients
  \/ c \in cache[k].clients

\* C1: a durable session record whose state is terminated keeps that state
\* whatever runs afterwards (auth setup or join, createSession, getSession,
\* addClientToSession, disconnects): no step sets it back to active.
C1_TerminatedIsFinal ==
  [][\A i \in 1..Len(dbSessions) :
       dbSessions[i].state = "terminated" => dbSessions'[i].state = "terminated"]_vars

\* C2: an /auth frame for (d, s) that arrives after terminateSession has set
\* the durable record of (d, s) to terminated is answered with a failure and
\* leaves its connection outside the session.
C2_AuthAfterTerminateFails ==
  \A t \in TaskIds :
    (tasks[t].pc = "done" /\ tasks[t].op = "auth" /\ tasks[t].post) =>
       /\ tasks[t].code # 200
       /\ ~Member(tasks[t].c, TKey(tasks[t]))

\* C3: when terminateSession(d, s) has returned (the handler has replied
\* 200), the store holds no DocumentUpdate and no DocumentCommit row of (d, s).
C3_TerminateLeavesNoRows ==
  \A t \in TaskIds :
    HasReplied(t, "terminate", 200) =>
       /\ \A u \in updates : ~(u.documentId = tasks[t].d /\ u.sessionDid = tasks[t].s)
       /\ \A m \in commits : ~(m.documentId = tasks[t].d /\ m.sessionDid = tasks[t].s)

\* C4: after every step each update row with committed = TRUE has a non-null
\* commitCid, and a row that was committed before the step, if it still
\* exists, is committed after it.
C4_CommittedHasCid ==
  [][\A v \in updates' :
       /\ v.committed => v.commitCid # "null"
       /\ \A u \in updates : (u.id = v.id /\ u.committed) => v.committed]_vars

C4_Witness ==
  \E u \in updates : u.committed /\ u.commitCid \in Cids

\* C5: an update row changes at most once, from uncommitted with a null
\* commitCid to committed with a commitCid; once set, commitCid is never
\* overwritten.
C5_CommitCidWrittenOnce ==
  [][\A u \in updates, v \in updates' :
       u.id = v.id =>
          \/ v = u
          \/ /\ ~u.committed /\ u.commitCid = "null"
             /\ v.committed /\ v.commitCid # "null"]_vars

\* C6: whenever a commit row is in the store, every stored update it lists
\* is committed, and the stored updates it lists either all carry its cid or
\* none of them does.
C6_CommitAtomic ==
  \A m \in commits :
    LET listed == {u \in updates : u.id \in m.updates}
    IN /\ \A u \in listed : u.committed
       /\ \/ \A u \in listed : u.commitCid = m.cid
          \/ \A u \in listed : u.commitCid # m.cid

NoDisconnects == \A c \in Conns : conns[c].status \in {"none", "open"}

InFlight(m) ==
  \E n \in Nodes : \E i \in 1..Len(bus[n]) :
     bus[n][i].type = "BROADCAST_MESSAGE" /\ bus[n][i].m = m

\* C7: with no disconnect and the bus connected, once a broadcast for (d, s)
\* excluding client x has been handled on every node, every connection that
\* was open and authenticated for (d, s) when it was sent, other than x, has
\* received it exactly once, and x has not received it.
C7_BroadcastReachesAll ==
  \A m \in 1..Len(msgs) :
    (NoDisconnects /\ redisUp /\ ~InFlight(m)) =>
       /\ \A c \in msgs[m].aud \ {msgs[m].exclude} : msgs[m].recv[c] = 1
       /\ \A c \in Conns : c = msgs[m].exclude => msgs[m].recv[c] = 0

\* C8: no client id is in the client sets of two different sessions at the
\* same time, in any node's in-memory map or in the cache.
C8_OneSessionPerClient ==
  \A c \in Conns, k1 \in Keys, k2 \in Keys :
    k1 # k2 =>
       /\ \A n \in Nodes : ~(c \in local[n][k1].clients /\ c \in local[n][k2].clients)
       /\ ~(c \in cache[k1].clients /\ c \in cache[k2].clients)

\* C9: while a session stays resolvable in a node's in-memory map or in the
\* cache, the ownerDid getSession returns for it does not change.
C9_OwnerNeverChanges ==
  [][\A k \in Keys :
       /\ \A n \in Nodes :
            (local[n][k].present /\ local'[n][k].present) =>
               local'[n][k].ownerDid = local[n][k].ownerDid
       /\ (cache[k].present /\ cache'[k].present) =>
             cache'[k].ownerDid = cache[k].ownerDid]_vars

\* C10: the sessions collection holds at most one record per (documentId,
\* sessionDid) whose state is not terminated.
C10_OneLiveRecordPerKey ==
  \A k \in Keys : Cardinality(FindLive(k)) <= 1

\* The handler in slot t takes a step.
Steps(t) == tasks'[t].pc # tasks[t].pc

UpdateIds(rows) == {u.id : u \in rows}

\* C11: a row that /documents/update persists carries the documentId and the
\* sessionDid the sending connection is authenticated for, whatever
\* documentId the frame's args name.
C11_UpdateKeyIsAuthKey ==
  [][\A v \in updates' :
       v.id \notin UpdateIds(updates) =>
          \E t \in TaskIds :
             /\ tasks[t].pc = "upd_save" /\ Steps(t)
             /\ v.documentId = conns[tasks[t].c].documentId
             /\ v.sessionDid = conns[tasks[t].c].sessionDid]_vars

\* A session for key k exists in some tier.
SessionExists(k) ==
  \/ \E n \in Nodes : local[n][k].present
  \/ cache[k].present
  \/ FindLive(k) # {}

\* C12: at the moment an update row is persisted, a session with the row's
\* (documentId, sessionDid) exists.
C12_UpdateHasSession ==
  [][\A v \in updates' :
       v.id \notin UpdateIds(updates) =>
          SessionExists(getSessionKey(v.documentId, v.sessionDid))]_vars

\* The owner DIDs that the tiers hold for key k.
OwnersOf(k) ==
  {local[n][k].ownerDid : n \in {m \in Nodes : local[m][k].present}}
  \cup (IF cache[k].present THEN {cache[k].ownerDid} ELSE {})
  \cup {dbSessions[i].ownerDid : i \in FindKey(dbSessions, k)}

\* Slot t holds a /documents/terminate handler whose owner token verifies to
\* no owner DID that any tier holds for its session, and that handler steps.
RejectedTerminateSteps(t) ==
  /\ tasks'[t].op = "terminate"
  /\ Steps(t)
  /\ tasks'[t].otok \notin OwnersOf(TKey(tasks'[t]))

\* C13: a /documents/terminate whose owner token does not verify to the
\* session's ownerDid is answered 401 once the session is loaded, broadcasts
\* nothing, and leaves the durable records, the log rows, an existing cache
\* entry and the client sets of existing in-memory entries as they were.
C13_RejectedTerminateChangesNothing ==
  [][\A t \in TaskIds :
       RejectedTerminateSteps(t) =>
          LET k == TKey(tasks'[t])
          IN /\ (tasks[t].pc = "term_got" /\ tasks[t].found) =>
                   (tasks'[t].pc = "done" /\ tasks'[t].code = 401)
             /\ msgs' = msgs
             /\ dbSessions' = dbSessions /\ updates' = updates /\ commits' = commits
             /\ cache[k].present => cache'[k] = cache[k]
             /\ \A n \in Nodes :
                  local[n][k].present => local'[n][k].clients = local[n][k].clients]_vars

\* C14: a durable session record becomes terminated only in a step of a
\* /documents/terminate handler for its (documentId, sessionDid) whose owner
\* token verifies to the record's ownerDid.
C14_TerminatedOnlyByOwner ==
  [][\A i \in 1..Len(dbSessions) :
       (dbSessions[i].state # "terminated" /\ dbSessions'[i].state = "terminated") =>
          \E t \in TaskIds :
             /\ tasks[t].op = "terminate" /\ Steps(t)
             /\ TKey(tasks[t]) = getSessionKey(dbSessions[i].documentId,
                                                dbSessions[i].sessionDid)
             /\ tasks[t].otok = dbSessions[i].ownerDid]_vars

\* C15: with no disconnect, once the SESSION_TERMINATED broadcast of a
\* /documents/terminate has been handled on every node the bus reaches, every
\* connection on such a node that was open and authenticated for the session
\* when it was sent, other than the caller, has received it, and the caller
\* has not.
C15_TerminatedReachesAll ==
  \A m \in 1..Len(msgs) :
    (msgs[m].type = "SESSION_TERMINATED" /\ NoDisconnects /\ ~InFlight(m)) =>
       /\ \A c \in msgs[m].aud \ {msgs[m].exclude} :
            (redisUp \/ NodeOf(c) = NodeOf(msgs[m].exclude)) => msgs[m].recv[c] >= 1
       /\ msgs[m].recv[msgs[m].exclude] = 0

\* Something in the system refers to a session for key k: a tier holds an
\* entry or a record, a SESSION_CREATED event is on its way, or a suspended
\* handler holds a copy it has read.
Used(k) ==
  \/ SessionExists(k)
  \/ FindKey(dbSessions, k) # {}
  \/ \E n \in Nodes : \E i \in 1..Len(bus[n]) :
        bus[n][i].type = "SESSION_CREATED" /\ bus[n][i].k = k
  \/ \E t \in TaskIds :
        /\ tasks[t].pc \notin {"idle", "done"} /\ TKey(tasks[t]) = k
        /\ (tasks[t].found \/ tasks[t].tmp.present \/ tasks[t].fowner # "none")

\* C16: a session for a (documentId, sessionDid) that nothing in the system
\* refers to comes into existence only in a step of an /auth handler for that
\* pair whose owner token verifies, and every entry created carries the owner
\* DID the token verifies to; an /auth with no or a failing owner token
\* creates nothing.
C16_CreatedOnlyByVerifiedOwner ==
  [][\A k \in Keys :
       (~Used(k) /\ (SessionExists(k) \/ FindKey(dbSessions, k) # {})') =>
          \E t \in TaskIds :
             /\ tasks'[t].op = "auth" /\ Steps(t) /\ TKey(tasks'[t]) = k
             /\ tasks'[t].otok \in Owners
             /\ OwnersOf(k)' = {tasks'[t].otok}]_vars

C16_Witness ==
  \E t \in TaskIds :
     /\ HasReplied(t, "auth", 401) /\ ~tasks[t].existing
     /\ tasks[t].otok \notin Owners
     /\ OwnersOf(TKey(tasks[t])) = {"o1"}

\* C17: on the join path of /auth the connection is admitted only if the
\* collaboration token verifies against the session's sessionDid; an admitted
\* connection gets role owner exactly when an owner token was supplied and
\* verifies to the ownerDid of the session that was looked up, and role editor
\* in every other case; a rejected join leaves the connection as it was.
Admitted(t) == ~(tasks'[t].pc = "done" /\ tasks'[t].code = 401)

C17_JoinRole ==
  [][\A t \in TaskIds :
       (tasks[t].pc = "join_got" /\ Steps(t)) =>
          LET c == tasks[t].c
          IN IF Admitted(t)
             THEN /\ tasks[t].found
                  /\ tasks[t].ctok = tasks[t].s
                  /\ conns'[c].authenticated
                  /\ conns'[c].sessionDid = tasks[t].s
                  /\ conns'[c].role =
                        IF tasks[t].otok \in Owners /\ tasks[t].otok = tasks[t].fowner
                        THEN "owner" ELSE "editor"
             ELSE conns' = conns]_vars

C17_Witness ==
  \E t \in TaskIds :
     /\ HasReplied(t, "auth", 200)
     /\ tasks[t].existing
     /\ tasks[t].otok = "o2"
     /\ conns[tasks[t].c].role = "editor"
     /\ OwnersOf(TKey(tasks[t])) = {"o1"}

\* C18: a commit row for session (d,s) is created only by the owner of that
\* session: a /documents/commit frame from a connection whose role is not
\* owner is answered 403 and changes no stored row, and every new commit row
\* is saved by a request whose owner token verifies to the ownerDid of the
\* session the row is filed under.
CommitIds(rows) == {v.id : v \in rows}

C18_CommitOnlyByOwner ==
  [][/\ \A t \in TaskIds :
          (/\ tasks[t].pc = "idle"
           /\ tasks'[t].op = "commit"
           /\ conns[tasks'[t].c].authenticated
           /\ conns[tasks'[t].c].role # "owner") =>
             /\ tasks'[t].pc = "done" /\ tasks'[t].code = 403
             /\ commits' = commits /\ updates' = updates
     /\ \A v \in commits' : v.id \notin CommitIds(commits) =>
          \E t \in TaskIds :
             /\ tasks[t].pc = "com_save" /\ Steps(t)
             /\ tasks[t].otok \in OwnersOf(getSessionKey(v.documentId, v.sessionDid))]_vars

\* C19: a createCommit whose list names update ids that are not in the store
\* still succeeds with its commit row persisted; it sets committed and
\* commitCid = cid on exactly the listed ids that exist, leaves every other
\* row as it was, and creates no row for a missing id.
C19_MissingIdsIgnored ==
  [][\A t \in TaskIds :
       (/\ tasks[t].pc = "com_mark"
        /\ tasks'[t].pc = "done" /\ tasks'[t].code = 200) =>
          /\ \E v \in commits' : v.cid = tasks[t].cid /\ v.updates = tasks[t].ups
          /\ UpdateIds(updates') = UpdateIds(updates)
          /\ Cardinality(updates') = Cardinality(updates)
          /\ \A u \in updates : \E w \in updates' :
                /\ w.id = u.id
                /\ w.documentId = u.documentId
                /\ w.sessionDid = u.sessionDid
                /\ IF u.id \in tasks[t].ups
                   THEN w.committed /\ w.commitCid = tasks[t].cid
                   ELSE w.committed = u.committed /\ w.commitCid = u.commitCid]_vars

C19_Witness ==
  /\ \E t \in TaskIds : HasReplied(t, "commit", 200)
  /\ \E v \in commits :
        /\ v.updates \cap GhostIds # {}
        /\ \E u \in updates : u.id \in v.updates /\ u.committed /\ u.commitCid = v.cid
        /\ \E u \in updates : u.id \notin v.updates /\ ~u.committed
  /\ UpdateIds(updates) \cap GhostIds = {}

\* C20: after the last client of a session has left, a subsequent /auth of
\* the owner with a valid owner token for the same (documentId, sessionDid)
\* succeeds with role owner, the session's ownerDid is the stored one and
\* every durable record of the pair is active.
C20_OwnerReenters ==
  \A t \in TaskIds :
     (/\ tasks[t].pc = "done" /\ tasks[t].op = "auth"
      /\ tasks[t].c = "c2" /\ tasks[t].otok = "o1"
      /\ FindKey(dbSessions, TKey(tasks[t])) # {}) =>
        /\ tasks[t].code \in {200, 500}
        /\ tasks[t].code = 200 =>
              /\ conns["c2"].authenticated
              /\ conns["c2"].role = "owner"
              /\ OwnersOf(TKey(tasks[t])) = {"o1"}
              /\ \A i \in FindKey(dbSessions, TKey(tasks[t])) :
                    dbSessions[i].state = "active"

\* The handler of a frame starts.
Begins(t) ==
  /\ tasks[t].pc = "idle"
  /\ tasks'[t].pc # "idle"
  /\ tasks'[t].op # "disconnect"

\* C21: the frames of one socket are handled strictly one after the other:
\* the handler of a frame starts only when no handler of an earlier frame of
\* the same socket is still between its start and its reply.
C21_FramesSequential ==
  [][\A t \in TaskIds :
       Begins(t) =>
          \A u \in TaskIds \ {t} : ~(Running(u) /\ tasks[u].c = tasks'[t].c)]_vars

\* C22: a /documents/peers/list reply carries the client set of the session
\* as the shared cache holds it whenever the cache is connected and has the
\* session, and the node-local set otherwise.  Stated for a reply sent while
\* no other handler is running and no bus event is waiting.
Quiet(t) ==
  /\ \A u \in TaskIds \ {t} : tasks[u].pc \in {"idle", "done"}
  /\ \A n \in Nodes : bus[n] = <<>>

C22_PeersFromCache ==
  [][\A t \in TaskIds :
       (/\ tasks[t].pc = "peers_got"
        /\ tasks'[t].pc = "done" /\ tasks'[t].code = 200
        /\ Quiet(t)) =>
          LET k == TKey(tasks[t])
          IN tasks'[t].peers = IF redisUp /\ cache[k].present
                               THEN cache[k].clients
                               ELSE local[TNode(tasks[t])][k].clients]_vars

\* C23: when saving the update row fails inside /documents/update, the
\* requester is answered 500, no CONTENT_UPDATE is published or delivered,
\* the session (durable records, client sets, cache entry) is unchanged and
\* the socket stays as it was.
C23_FailedUpdateIsLocal ==
  [][\A t \in TaskIds :
       (tasks[t].pc = "upd_save" /\ Steps(t) /\ updates' = updates) =>
          /\ tasks'[t].pc = "done" /\ tasks'[t].code = 500
          /\ msgs' = msgs /\ bus' = bus
          /\ local' = local /\ cache' = cache /\ dbSessions' = dbSessions
          /\ conns' = conns]_vars

C23_Witness ==
  \E t \in TaskIds :
     /\ HasReplied(t, "update", 500)
     /\ tasks[t].d = "d1"
     /\ conns[tasks[t].c].status = "open"
     /\ Member(tasks[t].c, TKey(tasks[t]))
     /\ updates = {} /\ msgs = <<>>

\* C24: a frame that is not valid JSON is answered 400, a frame with an
\* unknown cmd 404 and an exception thrown inside a handler 500; in all three
\* cases the socket stays open and the connection's authentication state and
\* every session are unchanged.  The 500 case is stated for a connection
\* whose only two frames were an /auth for d1 answered 200 and an /auth for d2
\* answered 500: it is authenticated for d1 and no session of d2 exists.
OnlyFrames(t, u) ==
  /\ frames = 2
  /\ HasReplied(t, "auth", 200) /\ tasks[t].d = "d1"
  /\ HasReplied(u, "auth", 500) /\ tasks[u].d = "d2"
  /\ tasks[u].c = tasks[t].c

C24_ErrorsChangeNothing ==
  [][\A t \in TaskIds :
       /\ (tasks[t].pc = "idle" /\ tasks'[t].op = "bad") =>
             /\ tasks'[t].pc = "done" /\ tasks'[t].code \in {400, 404}
             /\ conns' = conns /\ local' = local /\ cache' = cache
             /\ dbSessions' = dbSessions
       /\ \A u \in TaskIds :
             OnlyFrames(t, u)' =>
                /\ conns'[tasks'[t].c].status = "open"
                /\ conns'[tasks'[t].c].authenticated
                /\ conns'[tasks'[t].c].documentId = "d1"
                /\ ~SessionExists(getSessionKey("d2", "s1"))']_vars


\* The steps that write a roomInfo on behalf of their frame: createSession
\* of a setup, updateRoomInfo of a join that took role owner, and the
\* durable write of terminateSession.
WritesRoomInfo(t) ==
  /\ Steps(t)
  /\ \/ tasks[t].pc \in {"cs_cache", "cs_db", "ri_rset", "ri_db", "term_db1"}
     \/ tasks[t].pc = "auth_got" /\ tasks'[t].pc \in {"cs_cache", "cs_db"}
     \/ tasks[t].pc = "join_got" /\ tasks'[t].pc \in {"ri_rget", "ri_db"}

\* C25: the roomInfo of a session that stays in the cache, or in a node's
\* map while a handler of that node runs, changes only in a step of
\* createSession, of the updateRoomInfo of a join with role owner, or of
\* terminateSession; in particular no step of an /auth whose connection
\* took role editor changes it, whatever roomInfo argument the frame
\* carries.
C25_RoomInfoWriters ==
  [][\A k \in Keys :
       /\ (cache[k].present /\ cache'[k].present
             /\ cache'[k].roomInfo # cache[k].roomInfo)
          => \E t \in TaskIds : WritesRoomInfo(t) /\ TKey(tasks[t]) = k
       /\ \A n \in Nodes :
            (local[n][k].present /\ local'[n][k].present /\ bus'[n] = bus[n]
               /\ local'[n][k].roomInfo # local[n][k].roomInfo)
            => \E t \in TaskIds : WritesRoomInfo(t) /\ TKey(tasks[t]) = k]_vars


\* C26: with Redis disconnected, the frames of the clients of one node are
\* served (a setup with the owner token, a join of an existing session, an
\* update or awareness frame of a connection that was authenticated when
\* the frame came are answered 200, or 500 when MongoDB fails), and every
\* broadcast has reached every
\* connection that was open and authenticated for the session when it was
\* sent, other than the excluded one, which has not received it.
C26_SoloNodeServes ==
  (~redisUp /\ NoDisconnects) =>
     /\ \A t \in TaskIds :
          (/\ tasks[t].pc = "done"
           /\ \/ tasks[t].op = "auth" /\ (tasks[t].otok = "o1" \/ tasks[t].existing)
              \/ tasks[t].op \in {"update", "awareness"} /\ tasks[t].s # "none")
          => tasks[t].code \in {200, 500}
     /\ \A m \in 1..Len(msgs) :
          /\ \A c \in msgs[m].aud \ {msgs[m].exclude} : msgs[m].recv[c] = 1
          /\ msgs[m].exclude \in Conns => msgs[m].recv[msgs[m].exclude] = 0


\* handleDisconnection ends in this step, and its removeClientFromSession
\* went through deactivateSession.
EndsDeactivating(t) ==
  LET k == TKey(tasks[t])
      n == TNode(tasks[t])
  IN /\ tasks[t].op = "disconnect"
     /\ tasks'[t].pc = "done"
     /\ \/ tasks[t].pc = "dc_rdel"
        \/ /\ tasks[t].pc = "dc_bcast"
           /\ local[n][k].present
           /\ local[n][k].clients \ {tasks[t].c} = {}

\* C27: when the disconnect of the last client of a session has been cleaned
\* up, the session is gone from the node's map and from the cache and its
\* durable record is in state inactive.
C27_LastLeaveInactive ==
  [][\A t \in TaskIds :
       EndsDeactivating(t) =>
          LET k == TKey(tasks[t])
          IN /\ ~local'[TNode(tasks[t])][k].present
             /\ redisUp => ~cache'[k].present
             /\ \A i \in FindKey(dbSessions', k) :
                   dbSessions'[i].state \in {"inactive", "terminated"}]_vars


\* C28: a session is deactivated only when the client that left was the
\* last one cluster-wide: no step deletes the session's cache entry while a
\* connection authenticated for the session is still open on some node, and
\* no step makes a node drop its map entry of the session while such a
\* connection is open on that node.
C28_DeactivatedOnlyWhenLast ==
  [][\A k \in Keys :
       /\ (cache[k].present /\ ~cache'[k].present) => Audience(k) = {}
       /\ \A n \in Nodes :
            (local[n][k].present /\ ~local'[n][k].present)
            => \A c \in Audience(k) : NodeOf(c) # n]_vars


\* C30: a connection that is open and authenticated for a session, and
\* whose client id is in its node's client set of that session, is still in
\* that set after every step that leaves it open and authenticated for the
\* session and the session not terminated.
C30_MemberStays ==
  [][\A c \in Conns, k \in Keys :
       (/\ c \in Audience(k)
        /\ c \in local[NodeOf(c)][k].clients
        /\ c \in Audience(k)'
        /\ k \notin retired')
       => c \in local'[NodeOf(c)][k].clients]_vars


\* C29: the user_left broadcast of a closed connection is never delivered to
\* that connection and, once handled on every node, has reached every other
\* connection that was open and authenticated for the session when it was
\* sent; and once the handleDisconnection of an authenticated connection
\* has run to its end, no handler is in flight and no event is queued, the
\* connection is out of the connections map and its client id is in no
\* client set, in any node's map or in the cache.
C29_LeftMeansGone ==
  /\ \A m \in 1..Len(msgs) :
       msgs[m].type = "user_left" =>
          /\ msgs[m].recv[msgs[m].exclude] = 0
          /\ ~InFlight(m) =>
                \A c \in msgs[m].aud \ {msgs[m].exclude} :
                   conns[c].status = "open" => msgs[m].recv[c] = 1
  /\ \A t \in TaskIds :
       (/\ tasks[t].op = "disconnect"
        /\ \A u \in TaskIds : tasks[u].pc \in {"idle", "done"}
        /\ \A n \in Nodes : bus[n] = <<>>)
       => /\ conns[tasks[t].c].status = "gone"
          /\ \A k \in Keys : ~Member(tasks[t].c, k)


\* C31: the write-back that ends redisStore.addClientToSession or
\* redisStore.removeClientFromSession loses no concurrent change of the
\* cached client list: a join's write keeps every client the record held
\* just before and adds its own, a leave's write removes its own client only.
C31_NoLostJoin ==
  [][\A t \in TaskIds :
       LET k == TKey(tasks[t])
       IN /\ (tasks[t].pc = "add_rset" /\ Steps(t)) =>
               cache'[k].clients = cache[k].clients \cup {tasks[t].c}
          /\ (tasks[t].pc = "dc_rset" /\ Steps(t) /\ cache'[k].present) =>
               cache'[k].clients = cache[k].clients \ {tasks[t].c}]_vars


\* C32: no update row is persisted for a (documentId, sessionDid) whose
\* durable record is in state terminated at that moment.
C32_NoRowAfterTerminate ==
  [][\A v \in updates' :
       v.id \notin UpdateIds(updates) =>
          \A i \in FindKey(dbSessions, getSessionKey(v.documentId, v.sessionDid)) :
             dbSessions[i].state # "terminated"]_vars


\* C33: in the step that answers an /auth frame with 200, the connection's
\* client id is in its node's client set of the session (documentId,
\* sessionDid) of the frame.
C33_AuthOkIsMember ==
  [][\A t \in TaskIds :
       (/\ tasks[t].op = "auth"
        /\ tasks[t].pc # "done"
        /\ tasks'[t].pc = "done"
        /\ tasks'[t].code = 200)
       => tasks[t].c \in local'[TNode(tasks[t])][TKey(tasks[t])].clients]_vars


\* C34: in the step that answers a /documents/terminate frame with 200,
\* every durable record of (documentId, sessionDid) is in state terminated
\* and no update row and no commit row of (documentId, sessionDid) is left.
C34_TerminateOkIsDone ==
  [][\A t \in TaskIds :
       (/\ tasks[t].op = "terminate"
        /\ tasks[t].pc # "done"
        /\ tasks'[t].pc = "done"
        /\ tasks'[t].code = 200)
       => /\ \A i \in FindKey(dbSessions', TKey(tasks[t])) :
               dbSessions'[i].state = "terminated"
          /\ \A v \in updates' :
               ~(v.documentId = tasks[t].d /\ v.sessionDid = tasks[t].s)
          /\ \A m \in commits' :
               ~(m.documentId = tasks[t].d /\ m.sessionDid = tasks[t].s)]_vars


\* C35: the step of createCommit that marks the update rows of a commit for
\* (d, s) leaves every update row of another document or session as it was.
C35_CommitMarksOwnRows ==
  [][\A t \in TaskIds :
       (tasks[t].pc = "com_mark" /\ Steps(t)) =>
          \A v \in updates :
             ~(v.documentId = tasks[t].d /\ v.sessionDid = tasks[t].s)
             => v \in updates']_vars


\* C36: a failed /auth (400 or 401) leaves the connection's authenticated
\* flag, role, documentId and sessionDid as they were. Stated for a
\* connection whose only two frames were an /auth for d1 answered 200 and
\* an /auth for d2 answered 400 or 401: it is authenticated as owner for
\* (d1, s1).
C36_FailedAuthKeepsState ==
  \A t \in TaskIds, u \in TaskIds :
     (/\ frames = 2
      /\ HasReplied(t, "auth", 200) /\ tasks[t].d = "d1"
      /\ tasks[u].pc = "done" /\ tasks[u].op = "auth" /\ tasks[u].d = "d2"
      /\ tasks[u].code \in {400, 401}
      /\ tasks[u].c = tasks[t].c)
     => LET ws == conns[tasks[t].c]
        IN /\ ws.authenticated
           /\ ws.role = "owner"
           /\ ws.documentId = "d1"
           /\ ws.sessionDid = "s1"


\* C37: /documents/update/history and /documents/commit/history return
\* only rows of the document and session the requesting connection
\* authenticated for, whatever args.documentId says.
C37_HistoryOwnRowsOnly ==
  [][\A t \in TaskIds :
       (/\ tasks[t].pc \in {"uh_read", "ch_read"}
        /\ tasks'[t].pc = "done")
       => LET ws == conns[tasks[t].c]
              log == IF tasks[t].op = "update_history" THEN updates ELSE commits
          IN \A v \in log :
                v.id \in tasks'[t].ups
                => /\ v.documentId = ws.documentId
                   /\ v.sessionDid = ws.sessionDid]_vars


\* C38: for each authenticated connection that disconnects, one user_left
\* broadcast is issued and removeClientFromSession runs once, also when
\* both the error and the close event of the socket fire: no
\* handleDisconnection run broadcasts for a connection for which another
\* run has already done so.
C38_OneLeavePerDisconnect ==
  [][\A t \in TaskIds :
       (tasks[t].pc = "dc_bcast" /\ Steps(t))
       => \A u \in TaskIds \ {t} :
             ~(/\ tasks[u].op = "disconnect"
               /\ tasks[u].c = tasks[t].c
               /\ tasks[u].pc # "dc_bcast")]_vars


\* C39: convergence. When no handler is running and every published bus
\* event has been delivered, every node holding a local entry of a
\* non-terminated session has a local client set equal to the client list
\* of the session's cache record, and that list is the set of connected,
\* authenticated clients of the session on all nodes.
C39_Converges ==
  (/\ \A t \in TaskIds : tasks[t].pc \in {"idle", "done"}
   /\ \A n \in Nodes : bus[n] = <<>>)
  => \A k \in Keys \ retired :
        LET connected == {c \in Conns :
                            /\ conns[c].status = "open"
                            /\ conns[c].authenticated
                            /\ getSessionKey(conns[c].documentId,
                                             conns[c].sessionDid) = k}
        IN \A n \in Nodes :
              local[n][k].present
              => /\ local[n][k].clients = cache[k].clients
                 /\ cache[k].clients = connected

====
